---- MODULE Spec2Model ----
(***************************************************************************)
(* Model of the launch runtime core: LaunchContext (event queue, handler   *)
(* registry, dispatch), LaunchService (run loop, shutdown flag, shutdown   *)
(* from another thread) and the ExecuteProcess action (spawn coroutine,    *)
(* I/O protocol callbacks, handlers of process events, cmd expansion).     *)
(***************************************************************************)
EXTENDS Integers, Sequences, FiniteSets, TLC

\* ------------------------------------------------------------------ bounds
MaxEvents == 4
MaxIncludes == 1
MaxChunks == 1
MaxRequests == 1
MaxCmdLen == 2
MaxItems == 2
MaxBurst == 3

Threads == {"T1", "T2"}
ReturnCodes == {0, 1}

\* ------------------------------------------------------------ event names
N_Include == "launch.events.IncludeLaunchDescription"
N_Shutdown == "launch.events.Shutdown"
N_ProcessStarted == "launch.events.process.ProcessStarted"
N_ProcessExited == "launch.events.process.ProcessExited"
N_ProcessStdout == "launch.events.process.ProcessStdout"
N_ProcessStderr == "launch.events.process.ProcessStderr"
N_ShutdownProcess == "launch.events.process.ShutdownProcess"
N_SignalProcess == "launch.events.process.SignalProcess"
N_ProcessStdin == "launch.events.process.ProcessStdin"
N_ProcessIO == "launch.events.process.ProcessIO"
N_ProcessEvent == "launch.events.process.ProcessEvent"

VARIABLES
  event_queue,          \* LaunchContext.__event_queue
  event_handlers,       \* LaunchContext.__event_handlers (front = index 1)
  async_event_handlers, \* LaunchContext.__async_event_handlers (front = index 1)
  asyncio_loop,         \* LaunchContext.__asyncio_loop is set
  running,              \* LaunchService.__running
  loop_from_run_thread, \* LaunchService.__loop_from_run_thread is set
  run_pc,               \* position of each thread in LaunchService.run
  run_local,            \* the local variable `running` of __run_loop
  run_result,           \* what each call of run() returned or raised
  stopping,             \* stop() was called on the thread's asyncio loop
  tasks,                \* the __execute_process coroutines and their children
  arg_cmd,              \* the cmd argument given to ExecuteProcess.__init__
  cmd,                  \* ExecuteProcess.__cmd
  final_cmd,            \* ExecuteProcess._final_cmd of each ExecuteProcess action
  cmd_pc,               \* how far the construction and expansion of cmd have come
  arg_target,           \* the target_action argument given to an event handler's __init__
  handler_class,        \* the class of the event handler under construction
  handler_pc,           \* how far the construction of the event handler has come
  tests,                \* LaunchTestService.__tests: the status of each test
  processes_rc,         \* LaunchTestService.__processes_rc, in insertion order
  test_ret,             \* the last call of a LaunchTestService method and its result
  enq,                  \* history: every event ever enqueued, in order
  log                   \* history: dispatches, handler calls and visits

test_vars == <<tests, processes_rc, test_ret>>

core_vars ==
  <<event_queue, event_handlers, async_event_handlers, asyncio_loop, running,
    loop_from_run_thread, run_pc, run_local, run_result, stopping, tasks, enq, log>>

service_vars == <<core_vars, test_vars>>

handler_vars == <<arg_target, handler_class, handler_pc>>

cmd_vars == <<arg_cmd, cmd, final_cmd, cmd_pc, handler_vars>>

vars == <<service_vars, cmd_vars>>

\* ------------------------------------------------- descriptions and inputs
NoEvent == [name |-> "none", arg |-> "none"]

\* The entities of the descriptions the service is given.  `kind` selects the
\* visit() that runs; the other fields are the entity's constructor arguments
\* (`action` is the ExecuteProcess the entity is, or the one its event targets;
\* `items` are the entities a LaunchDescription contains, or the entities that
\* the execute() of an Action returns).
EntityTable ==
  [ ld            |-> [kind |-> "LaunchDescription", handler |-> "none", action |-> 0,
                       items |-> <<"reg_on_output", "exec1", "reg_on_stdout", "reg_on_exit">>,
                       event |-> NoEvent],
    followup      |-> [kind |-> "LaunchDescription", handler |-> "none", action |-> 0,
                       items |-> <<"log", "reg_late">>,
                       event |-> NoEvent],
    tree          |-> [kind |-> "LaunchDescription", handler |-> "none", action |-> 0,
                       items |-> <<"inner", "group", "exec1">>,
                       event |-> NoEvent],
    inner         |-> [kind |-> "LaunchDescription", handler |-> "none", action |-> 0,
                       items |-> <<"reg_echo", "reg_echo">>,
                       event |-> NoEvent],
    group         |-> [kind |-> "Action", handler |-> "none", action |-> 0,
                       items |-> <<"log", "reg_echo">>,
                       event |-> NoEvent],
    reg_echo      |-> [kind |-> "RegisterEventHandler", handler |-> "echo",
                       action |-> 0, items |-> <<>>,
                       event |-> NoEvent],
    chain         |-> [kind |-> "LaunchDescription", handler |-> "none", action |-> 0,
                       items |-> <<"exec1", "reg_exit_then_exec2">>,
                       event |-> NoEvent],
    reg_exit_then_exec2 |->
                      [kind |-> "RegisterEventHandler", handler |-> "exit_then_exec2",
                       action |-> 0, items |-> <<>>,
                       event |-> NoEvent],
    tested        |-> [kind |-> "LaunchDescription", handler |-> "none", action |-> 0,
                       items |-> <<"reg_test_exit", "exec1">>,
                       event |-> NoEvent],
    reg_test_exit |-> [kind |-> "RegisterEventHandler", handler |-> "test_exit",
                       action |-> 0, items |-> <<>>,
                       event |-> NoEvent],
    tested_sd     |-> [kind |-> "LaunchDescription", handler |-> "none", action |-> 0,
                       items |-> <<"reg_test_exit", "exec1", "reg_on_stdout">>,
                       event |-> NoEvent],
    fixture       |-> [kind |-> "LaunchDescription", handler |-> "none", action |-> 0,
                       items |-> <<"exec1", "reg_fixture_exit">>,
                       event |-> NoEvent],
    io            |-> [kind |-> "LaunchDescription", handler |-> "none", action |-> 0,
                       items |-> <<"reg_io_out_1", "reg_io_all_2", "reg_exit_log_1",
                                   "exec1", "emit_stdin_2">>,
                       event |-> NoEvent],
    reg_io_out_1  |-> [kind |-> "RegisterEventHandler", handler |-> "io_out_1",
                       action |-> 0, items |-> <<>>,
                       event |-> NoEvent],
    reg_io_all_2  |-> [kind |-> "RegisterEventHandler", handler |-> "io_all_2",
                       action |-> 0, items |-> <<>>,
                       event |-> NoEvent],
    reg_exit_log_1 |->
                      [kind |-> "RegisterEventHandler", handler |-> "exit_log_1",
                       action |-> 0, items |-> <<>>,
                       event |-> NoEvent],
    emit_stdin_2  |-> [kind |-> "EmitEvent", handler |-> "none", action |-> 2,
                       items |-> <<>>,
                       event |-> [name |-> N_ProcessStdin, arg |-> "text"]],
    with_async    |-> [kind |-> "LaunchDescription", handler |-> "none", action |-> 0,
                       items |-> <<"reg_async_echo", "reg_echo", "exec1">>,
                       event |-> NoEvent],
    reg_async_echo |->
                      [kind |-> "RegisterAsyncEventHandler", handler |-> "async_echo",
                       action |-> 0, items |-> <<>>,
                       event |-> NoEvent],
    sd_user       |-> [kind |-> "LaunchDescription", handler |-> "none", action |-> 0,
                       items |-> <<"reg_user_shutdown", "exec1", "emit_shutdown">>,
                       event |-> NoEvent],
    reg_user_shutdown |->
                      [kind |-> "RegisterEventHandler", handler |-> "user_shutdown",
                       action |-> 0, items |-> <<>>,
                       event |-> NoEvent],
    reg_fixture_exit |->
                      [kind |-> "RegisterEventHandler", handler |-> "fixture_exit",
                       action |-> 0, items |-> <<>>,
                       event |-> NoEvent],
    unreg         |-> [kind |-> "LaunchDescription", handler |-> "none", action |-> 0,
                       items |-> <<"reg_echo", "reg_echo", "unreg_echo", "exec1">>,
                       event |-> NoEvent],
    unreg_absent  |-> [kind |-> "LaunchDescription", handler |-> "none", action |-> 0,
                       items |-> <<"unreg_echo", "exec1">>,
                       event |-> NoEvent],
    unreg_echo    |-> [kind |-> "UnregisterEventHandler", handler |-> "echo",
                       action |-> 0, items |-> <<>>,
                       event |-> NoEvent],
    twice         |-> [kind |-> "LaunchDescription", handler |-> "none", action |-> 0,
                       items |-> <<"exec1", "exec1">>,
                       event |-> NoEvent],
    exec1         |-> [kind |-> "ExecuteProcess", handler |-> "none", action |-> 1,
                       items |-> <<>>,
                       event |-> NoEvent],
    exec2         |-> [kind |-> "ExecuteProcess", handler |-> "none", action |-> 2,
                       items |-> <<>>,
                       event |-> NoEvent],
    log           |-> [kind |-> "Action", handler |-> "none", action |-> 0,
                       items |-> <<>>,
                       event |-> NoEvent],
    reg_on_output |-> [kind |-> "RegisterEventHandler", handler |-> "on_output",
                       action |-> 0, items |-> <<>>,
                       event |-> NoEvent],
    reg_on_stdout |-> [kind |-> "RegisterEventHandler", handler |-> "on_stdout",
                       action |-> 0, items |-> <<>>,
                       event |-> NoEvent],
    reg_on_exit   |-> [kind |-> "RegisterEventHandler", handler |-> "on_exit",
                       action |-> 0, items |-> <<>>,
                       event |-> NoEvent],
    reg_late      |-> [kind |-> "RegisterEventHandler", handler |-> "late",
                       action |-> 0, items |-> <<>>,
                       event |-> NoEvent],
    emit_shutdown |-> [kind |-> "EmitEvent", handler |-> "none", action |-> 0,
                       items |-> <<>>,
                       event |-> [name |-> N_Shutdown, arg |-> "none"]],
    req_signal    |-> [kind |-> "LaunchDescription", handler |-> "none", action |-> 0,
                       items |-> <<"emit_signal">>,
                       event |-> NoEvent],
    req_stdin     |-> [kind |-> "LaunchDescription", handler |-> "none", action |-> 0,
                       items |-> <<"emit_stdin">>,
                       event |-> NoEvent],
    req_shutdown  |-> [kind |-> "LaunchDescription", handler |-> "none", action |-> 0,
                       items |-> <<"emit_shutdown_process">>,
                       event |-> NoEvent],
    req_other     |-> [kind |-> "LaunchDescription", handler |-> "none", action |-> 0,
                       items |-> <<"emit_signal_other">>,
                       event |-> NoEvent],
    emit_signal   |-> [kind |-> "EmitEvent", handler |-> "none", action |-> 1,
                       items |-> <<>>,
                       event |-> [name |-> N_SignalProcess, arg |-> "SIGTERM"]],
    emit_stdin    |-> [kind |-> "EmitEvent", handler |-> "none", action |-> 1,
                       items |-> <<>>,
                       event |-> [name |-> N_ProcessStdin, arg |-> "text"]],
    emit_shutdown_process |->
                      [kind |-> "EmitEvent", handler |-> "none", action |-> 1,
                       items |-> <<>>,
                       event |-> [name |-> N_ShutdownProcess, arg |-> "none"]],
    emit_signal_other |->
                      [kind |-> "EmitEvent", handler |-> "none", action |-> 2,
                       items |-> <<>>,
                       event |-> [name |-> N_SignalProcess, arg |-> "SIGTERM"]] ]

EntityNames == DOMAIN EntityTable
Descriptions == {"ld"}

\* A description with a nested description, an action whose execute() returns
\* entities, and one handler registered three times.
TreeDescriptions == {"tree"}

\* A description that registers one handler as an async handler and another
\* as a synchronous one for the same events.
AsyncDescriptions == {"with_async"}

\* A description that registers a handler for Shutdown, starts a process
\* (whose events are queued behind the Shutdown event) and emits Shutdown.
ShutdownDescriptions == {"sd_user"}

\* Descriptions of particular situations: one action contained twice; an
\* action chained to the exit of another; an action added as a test; a handler
\* unregistered after two registrations, and unregistered without any.
ScenarioDescriptions ==
  {"twice", "chain", "tested", "unreg", "unreg_absent", "tested_sd", "fixture"}

\* Descriptions that emit one event addressed to an ExecuteProcess action.
RequestDescriptions == {"req_signal", "req_stdin", "req_shutdown", "req_other"}

\* The user's event handlers: the event names the matcher accepts, and what
\* the handler body does when called: register another handler on the
\* context, raise, or return a value (an entity, None, or something that is
\* no entity).  on_exit returns an entity for a clean exit and a value that is
\* no entity for a failed one.
UserHandlers ==
  [ on_output |-> [names |-> {N_ProcessStdout, N_ProcessStderr}, registers |-> "none",
                   raises |-> FALSE, returns |-> "followup", returns_failed |-> "followup"],
    on_stdout |-> [names |-> {N_ProcessStdout}, registers |-> "late",
                   raises |-> FALSE, returns |-> "emit_shutdown",
                   returns_failed |-> "emit_shutdown"],
    on_exit   |-> [names |-> {N_ProcessExited}, registers |-> "none",
                   raises |-> FALSE, returns |-> "log", returns_failed |-> "not_an_entity"],
    late      |-> [names |-> {N_ProcessStdout, N_ProcessStderr}, registers |-> "none",
                   raises |-> TRUE, returns |-> "None", returns_failed |-> "None"],
    echo      |-> [names |-> {N_ProcessStdout, N_ProcessStderr}, registers |-> "none",
                   raises |-> FALSE, returns |-> "None", returns_failed |-> "None"],
    user_shutdown |-> [names |-> {N_Shutdown}, registers |-> "none",
                   raises |-> FALSE, returns |-> "None", returns_failed |-> "None"],
    async_echo |-> [names |-> {N_ProcessStdout, N_ProcessStderr}, registers |-> "none",
                   raises |-> FALSE, returns |-> "None", returns_failed |-> "None"] ]

\* The OnProcessExit handlers: OnProcessExit(target_action=A, on_exit=[B]) of
\* the chained description, and the one that add_test_action builds.  on_exit
\* is an entity, a list of entities (`value` its only element) or a callable.
OnProcessExitHandlers ==
  [ exit_then_exec2 |-> [target_action |-> 1,
                         on_exit |-> [kind |-> "list", value |-> "exec2"]],
    test_exit       |-> [target_action |-> 1,
                         on_exit |-> [kind |-> "callable", value |-> "on_test_process_exit"]],
    exit_log_1      |-> [target_action |-> 1,
                         on_exit |-> [kind |-> "entity", value |-> "log"]],
    fixture_exit    |-> [target_action |-> 1,
                         on_exit |-> [kind |-> "callable",
                                      value |-> "on_fixture_process_exit"]] ]

\* The value the body of user handler h returns for event e.
handler_returns(h, e) ==
  IF e.rc = 0 THEN UserHandlers[h.name].returns ELSE UserHandlers[h.name].returns_failed

\* A registered handler: `reg` records the order of registration (1 = first).
Handler(n, a) == [name |-> n, action |-> a, reg |-> 0]
NoHandler == Handler("none", 0)
UserHandler(n) == Handler(n, 0)

\* An event: `id` is its position among all events enqueued, `regs` the number
\* of handlers registered when it was enqueued, `task` the coroutine that
\* emitted it (0 when none did), `cmd` the resolved cmd a process event carries,
\* `text` the data of an I/O event (chunk n of its pipe is written n).
Event(name, desc, action, task, rc) ==
  [id |-> 0, regs |-> 0, name |-> name, desc |-> desc, action |-> action,
   task |-> task, rc |-> rc, arg |-> "none", cmd |-> <<>>, text |-> 0]

LogEntry(op, e, h, ent) ==
  [op |-> op, e |-> e.id, h |-> h, ent |-> ent, snap |-> <<>>, children |-> <<>>]

\* The entry that opens a dispatch: it keeps the handlers registered at that
\* moment and, for an event addressed to a process, the state of every child.
DispatchEntry(e, snapshot, children) ==
  [op |-> "dispatch", e |-> e.id, h |-> NoHandler, ent |-> "none", snap |-> snapshot,
   children |-> children]

RequestNames == {N_ShutdownProcess, N_SignalProcess, N_ProcessStdin}

\* The state of the child of every coroutine created so far, as an event
\* addressed to a process finds it.
ChildrenOf(c, e) ==
  IF e.name \in RequestNames THEN [k \in 1..Len(c.tasks) |-> c.tasks[k].child] ELSE <<>>

\* ------------------------------------------------------- LaunchContext
\* The state a dispatch reads and writes, threaded through the operators below.
Ctx ==
  [handlers |-> event_handlers, queue |-> event_queue, loop |-> asyncio_loop,
   async_handlers |-> async_event_handlers,
   running |-> running, tasks |-> tasks, tests |-> tests, processes_rc |-> processes_rc,
   test_ret |-> test_ret, enq |-> enq, log |-> log,
   raised |-> FALSE]

\* Variant: registration appends at the back of the deque.
register_event_handler_at_back(c, h) ==
  [c EXCEPT !.handlers = Append(@, [h EXCEPT !.reg = Len(c.handlers) + 1])]

\* Variant: a handler that is already registered is not registered again.
register_event_handler_once(c, h) ==
  IF \E k \in 1..Len(c.handlers) :
       c.handlers[k].name = h.name /\ c.handlers[k].action = h.action
    THEN c
    ELSE [c EXCEPT !.handlers = <<[h EXCEPT !.reg = Len(c.handlers) + 1]>> \o @]

register_event_handler(c, h) ==
  [c EXCEPT !.handlers = <<[h EXCEPT !.reg = Len(c.handlers) + 1]>> \o @]

\* A registration that puts the handler among the synchronous ones.
register_async_as_sync(c, h) == register_event_handler(c, h)

\* context.register_async_event_handler(h): appendleft to the async handlers.
register_async_event_handler(c, h) ==
  [c EXCEPT !.async_handlers = <<[h EXCEPT !.reg = Len(c.async_handlers) + 1]>> \o @]

\* context.unregister_event_handler(h): LaunchContext has no such method, so
\* the attribute lookup raises AttributeError.
unregister_event_handler(c, h) == [c EXCEPT !.raised = TRUE]

put_nowait(c, ev) ==
  LET e == [ev EXCEPT !.id = Len(c.enq) + 1, !.regs = Len(c.handlers)]
  IN [c EXCEPT !.queue = Append(@, e), !.enq = Append(@, e)]

\* Variant: the non-blocking enqueue puts the event at the head of the queue.
emit_event_sync_at_head(c, ev) ==
  LET e == [ev EXCEPT !.id = Len(c.enq) + 1, !.regs = Len(c.handlers)]
  IN [c EXCEPT !.queue = <<e>> \o @, !.enq = Append(@, e)]

emit_event_sync(c, ev) == put_nowait(c, ev)

emit_event(c, ev) == put_nowait(c, ev)

is_a_subclass(ret) == ret \in EntityNames

\* The base class of each class of process events.
Bases ==
  [ x \in {N_ProcessStdout, N_ProcessStderr, N_ProcessStdin} |-> N_ProcessIO ]
  @@ [ x \in {N_ProcessIO, N_ProcessStarted, N_ProcessExited, N_ShutdownProcess,
              N_SignalProcess} |-> N_ProcessEvent ]

\* issubclass(cls, base)
RECURSIVE issubclass(_, _)
issubclass(cls, base) ==
  IF cls = base THEN TRUE
  ELSE IF cls \in DOMAIN Bases THEN issubclass(Bases[cls], base)
  ELSE FALSE

\* The fd that the constructor of each subclass of ProcessIO passes on.
fd(e) ==
  CASE e.name = N_ProcessStdin -> 0
    [] e.name = N_ProcessStdout -> 1
    [] e.name = N_ProcessStderr -> 2
    [] OTHER -> -1

\* ProcessIO.__init__, lines 52-54.
from_stdin(e) == fd(e) = 0
from_stdout(e) == fd(e) = 1
from_stderr(e) == fd(e) = 2

\* The callbacks given to OnProcessIO handlers, by what they return.
IOCallbacks == [print_text |-> "None", log_text |-> "log"]

\* The OnProcessIO handlers: their target action and their callbacks ("None"
\* for a callback that was not given).
OnProcessIOHandlers ==
  [ io_out_1 |-> [target_action |-> 1, on_stdin |-> "None", on_stdout |-> "log_text",
                  on_stderr |-> "None"],
    io_all_2 |-> [target_action |-> 2, on_stdin |-> "print_text", on_stdout |-> "print_text",
                  on_stderr |-> "log_text"] ]

\* Variant: the matcher does not look at the event's action.
_matcher_of_any_action(x, e) == issubclass(e.name, N_ProcessIO)

\* OnProcessIO._matcher
_matcher(x, e) == issubclass(e.name, N_ProcessIO) /\ e.action = x.target_action

\* The matcher that OnProcessExit.__init__ builds.
on_process_exit_matcher(x, e) == e.name = N_ProcessExited /\ e.action = x.target_action

event_named(name, e) == e.name = name

matches(h, e) ==
  CASE h.name = "on_include" -> event_named("launch.events.IncludeLaunchDescription", e)
    [] h.name = "on_shutdown" -> event_named("launch.events.Shutdown", e)
    [] h.name = "on_shutdown_process" -> event_named("launch.events.ShutdownProcess", e)
    [] h.name = "on_signal_process" -> event_named("launch.events.SignalProcess", e)
    [] h.name = "on_process_stdin" -> event_named("launch.events.ProcessStdin", e)
    [] h.name \in DOMAIN OnProcessExitHandlers ->
         on_process_exit_matcher(OnProcessExitHandlers[h.name], e)
    [] h.name \in DOMAIN OnProcessIOHandlers -> _matcher(OnProcessIOHandlers[h.name], e)
    [] OTHER -> e.name \in UserHandlers[h.name].names

\* ------------------------------------------------------- ExecuteProcess
NewTask(a, loop) ==
  [action |-> a, loop |-> loop, pc |-> "created", child |-> "none",
   out |-> 0, err |-> 0, rc |-> 0, signals |-> <<>>, stdin |-> <<>>, cmd |-> <<>>]

execute(c, a) ==
  LET c1 == register_event_handler(c, Handler("on_shutdown_process", a))
      c2 == register_event_handler(c1, Handler("on_signal_process", a))
      c3 == register_event_handler(c2, Handler("on_process_stdin", a))
  IN IF c3.loop # "None"
       THEN [c3 EXCEPT !.tasks = Append(@, NewTask(a, c3.loop))]
       ELSE [c3 EXCEPT !.raised = TRUE]

\* ExecuteProcess.__on_shutdown_process_event of action a: writes a debug line.
on_shutdown_process_event(c, a, e) == c

\* ExecuteProcess.__on_signal_process_event of action a: writes a debug line.
on_signal_process_event(c, a, e) == c

\* ExecuteProcess.__on_process_stdin_event of action a: writes a debug line.
on_process_stdin_event(c, a, e) == c

\* ------------------------------------------------------- entities
\* Action.execute: the default does nothing.
execute_default(c) == c

\* RegisterEventHandler.execute: registers its handler on the context.
execute_register_event_handler(c, d) == register_event_handler(c, UserHandler(d.handler))

\* A user's action whose execute() calls context.register_async_event_handler
\* with its handler.
execute_register_async_event_handler(c, d) ==
  register_async_event_handler(c, UserHandler(d.handler))

\* UnregisterEventHandler.execute: has the context unregister its handler.
execute_unregister_event_handler(c, d) == unregister_event_handler(c, UserHandler(d.handler))

\* EmitEvent.execute: emits its event.
execute_emit_event(c, d) ==
  emit_event_sync(c, [Event(d.event.name, "none", d.action, 0, 0) EXCEPT !.arg = d.event.arg])

RECURSIVE visit(_, _, _)
RECURSIVE visit_launch_description(_, _, _)

\* What entity.visit(context) returns: for an Action what its execute() returns,
\* None (no entities) for the others.
visit_returns(ent) ==
  IF EntityTable[ent].kind = "Action" THEN EntityTable[ent].items ELSE <<>>

\* LaunchDescription.visit: visits the contained entities in order, and after
\* each of them the entities that its visit returned.
visit_launch_description(c, items, e) ==
  IF items = <<>> \/ c.raised
    THEN c
    ELSE visit_launch_description(visit(c, Head(items), e),
                                  visit_returns(Head(items)) \o Tail(items), e)

\* entity.visit(context); for an Action, visit() is execute().
visit(c, ent, e) ==
  LET d == EntityTable[ent]
      c1 == [c EXCEPT !.log = Append(@, LogEntry("visit", e, NoHandler, ent))]
  IN CASE d.kind = "Action" -> execute_default(c1)
       [] d.kind = "ExecuteProcess" -> execute(c1, d.action)
       [] d.kind = "RegisterEventHandler" -> execute_register_event_handler(c1, d)
       [] d.kind = "RegisterAsyncEventHandler" -> execute_register_async_event_handler(c1, d)
       [] d.kind = "UnregisterEventHandler" -> execute_unregister_event_handler(c1, d)
       [] d.kind = "EmitEvent" -> execute_emit_event(c1, d)
       [] d.kind = "LaunchDescription" -> visit_launch_description(c1, d.items, e)

\* ------------------------------------------------------- handlers
\* Variant: the handler of the include event leaves the description unvisited.
on_include_without_visit(c, e) == c

on_include_launch_description_event(c, e) == visit(c, e.desc, e)

on_shutdown_event(c, e) == [c EXCEPT !.running = FALSE]

user_handler(c, h, e) ==
  LET u == UserHandlers[h.name]
      c1 == IF u.registers = "none" THEN c
            ELSE register_event_handler(c, UserHandler(u.registers))
  IN IF u.raises THEN [c1 EXCEPT !.raised = TRUE] ELSE c1

\* ------------------------------------------------------- LaunchTestService
\* A test is known to the service when __tests has its name as a key.
Known(ts) == {k \in DOMAIN ts : ts[k] # "none"}

\* The lists that _fail and _succeed return.
ShutdownReason == "[EmitEvent(Shutdown('<reason>'))]"
ShutdownAllFinished == "[EmitEvent(Shutdown('all tests finished'))]"
ShutdownAfterTest == "[EmitEvent(Shutdown('shutdown after test'))]"
EmptyList == "[]"

\* A call of a method of LaunchTestService and what it returned.
Call(method, test_name, side_effect, ret) ==
  [call |-> method, arg |-> test_name, side_effect |-> side_effect, ret |-> ret]
NoCall == Call("none", 0, "None", "None")

\* _arm: the tests after the call; the assert fails for a test already known.
_arm(ts, test_name) ==
  IF test_name \in Known(ts)
    THEN [tests |-> ts, ret |-> "AssertionError"]
    ELSE [tests |-> [ts EXCEPT ![test_name] = "armed"], ret |-> "None"]

\* _fail: the tests after the call and the list returned.
_fail(ts, test_name) ==
  LET ts1 == [ts EXCEPT ![test_name] = "failed"] IN
  [tests |-> [k \in DOMAIN ts1 |-> IF ts1[k] = "armed" THEN "dropped" ELSE ts1[k]],
   ret |-> ShutdownReason]

\* Variant: the statuses are inspected before the test is marked.
_succeed_checks_first(ts, test_name, side_effect) ==
  [tests |-> [ts EXCEPT ![test_name] = "succeeded"],
   ret |-> IF \A k \in Known(ts) : ts[k] = "succeeded" THEN ShutdownAllFinished
           ELSE IF side_effect = "shutdown" THEN ShutdownAfterTest
           ELSE EmptyList]

\* _succeed: the tests after the call and the list returned.
_succeed(ts, test_name, side_effect) ==
  LET ts1 == [ts EXCEPT ![test_name] = "succeeded"] IN
  [tests |-> ts1,
   ret |-> IF \A k \in Known(ts1) : ts1[k] = "succeeded" THEN ShutdownAllFinished
           ELSE IF side_effect = "shutdown" THEN ShutdownAfterTest
           ELSE EmptyList]

\* on_test_process_exit of add_test_action(launch_description, action a): for
\* a failed exit it reads event.action.process_details, which ExecuteProcess
\* does not have, and so raises before anything is recorded.
on_test_process_exit(c, a, e) ==
  IF e.rc # 0
    THEN [c |-> [c EXCEPT !.raised = TRUE], ret |-> "None"]
    ELSE LET r == _succeed(c.tests, a, "None")
         IN [c |-> [c EXCEPT !.tests = r.tests], ret |-> r.ret]

\* on_fixture_process_exit of add_fixture_action(launch_description, action a):
\* its first statement reads event.action.process_details, which ExecuteProcess
\* does not have, and so it raises whatever the return code is.
on_fixture_process_exit(c, a, e) == [c |-> [c EXCEPT !.raised = TRUE], ret |-> "None"]

\* Python values that LaunchService.run and LaunchTestService.run return.
PyNone == [type |-> "NoneType", value |-> 0]
PyInt(n) == [type |-> "int", value |-> n]

\* next((rc for rc in self.__processes_rc.values() if rc != 0), default_rc)
FirstNonZero(prc, default_rc) ==
  LET nz == SelectSeq(prc, LAMBDA x : x.rc # 0)
  IN IF nz = <<>> THEN default_rc ELSE Head(nz).rc

\* LaunchTestService.run, lines 225-228, given what launch_service.run returned.
test_service_run(rc, ts, prc) ==
  IF rc = PyInt(0)
    THEN LET default_rc == IF \E k \in Known(ts) : ts[k] = "failed" THEN 1 ELSE 0
         IN PyInt(FirstNonZero(prc, default_rc))
    ELSE rc

\* OnProcessExit.__call__: return self.__on_exit(event, context).  An entity
\* was wrapped into a function by the constructor; a list is stored as it is,
\* and calling it raises TypeError.
on_process_exit(c, h, e) ==
  LET x == OnProcessExitHandlers[h.name] IN
  CASE x.on_exit.kind = "entity" -> [c |-> c, ret |-> x.on_exit.value]
    [] x.on_exit.kind = "list" -> [c |-> [c EXCEPT !.raised = TRUE], ret |-> "None"]
    [] x.on_exit.kind = "callable" /\ x.on_exit.value = "on_test_process_exit" ->
         on_test_process_exit(c, x.target_action, e)
    [] x.on_exit.kind = "callable" /\ x.on_exit.value = "on_fixture_process_exit" ->
         on_fixture_process_exit(c, x.target_action, e)

\* A callback of an OnProcessIO handler is called with event.text.
call_callback(c, h, e, stream, cb) ==
  [c |-> [c EXCEPT !.log = Append(@, LogEntry("callback", e, h, stream))],
   ret |-> IOCallbacks[cb]]

\* Variant: an event of a stream without callback is ignored.
on_process_io_ignoring(c, h, e) ==
  LET x == OnProcessIOHandlers[h.name] IN
  IF from_stdout(e) /\ x.on_stdout # "None" THEN call_callback(c, h, e, "on_stdout", x.on_stdout)
  ELSE IF from_stderr(e) /\ x.on_stderr # "None"
    THEN call_callback(c, h, e, "on_stderr", x.on_stderr)
  ELSE IF from_stdin(e) /\ x.on_stdin # "None" THEN call_callback(c, h, e, "on_stdin", x.on_stdin)
  ELSE [c |-> c, ret |-> "None"]

\* OnProcessIO.__call__
on_process_io(c, h, e) ==
  LET x == OnProcessIOHandlers[h.name] IN
  IF from_stdout(e) /\ x.on_stdout # "None" THEN call_callback(c, h, e, "on_stdout", x.on_stdout)
  ELSE IF from_stderr(e) /\ x.on_stderr # "None"
    THEN call_callback(c, h, e, "on_stderr", x.on_stderr)
  ELSE IF from_stdin(e) /\ x.on_stdin # "None" THEN call_callback(c, h, e, "on_stdin", x.on_stdin)
  ELSE [c |-> [c EXCEPT !.raised = TRUE], ret |-> "None"]

\* event_handler(event, context): the context after the call and the value returned.
call_handler(c, h, e) ==
  LET c1 == [c EXCEPT !.log = Append(@, LogEntry("call", e, h, "none"))]
  IN CASE h.name = "on_include" ->
            [c |-> on_include_launch_description_event(c1, e), ret |-> "None"]
       [] h.name = "on_shutdown" -> [c |-> on_shutdown_event(c1, e), ret |-> "None"]
       [] h.name = "on_shutdown_process" ->
            [c |-> on_shutdown_process_event(c1, h.action, e), ret |-> "None"]
       [] h.name = "on_signal_process" ->
            [c |-> on_signal_process_event(c1, h.action, e), ret |-> "None"]
       [] h.name = "on_process_stdin" ->
            [c |-> on_process_stdin_event(c1, h.action, e), ret |-> "None"]
       [] h.name \in DOMAIN OnProcessExitHandlers -> on_process_exit(c1, h, e)
       [] h.name \in DOMAIN OnProcessIOHandlers -> on_process_io(c1, h, e)
       [] OTHER -> [c |-> user_handler(c1, h, e), ret |-> handler_returns(h, e)]

\* ------------------------------------------------------- dispatch
tuple(handlers) == handlers

\* Variant: the returned entities are collected and visited after the walk.
RECURSIVE collect_then_visit(_, _, _, _)
collect_then_visit(c, snapshot, e, pending) ==
  IF c.raised THEN c
  ELSE IF snapshot = <<>> THEN visit_launch_description(c, pending, e)
  ELSE
    LET h == Head(snapshot) IN
    IF matches(h, e)
      THEN
        LET r == call_handler(c, h, e) IN
        IF r.c.raised THEN r.c
        ELSE IF r.ret = "None" THEN collect_then_visit(r.c, Tail(snapshot), e, pending)
        ELSE IF ~is_a_subclass(r.ret) THEN [r.c EXCEPT !.raised = TRUE]
        ELSE collect_then_visit(r.c, Tail(snapshot), e, Append(pending, r.ret))
      ELSE collect_then_visit(c, Tail(snapshot), e, pending)

for_event_handler_in_deferred(c, snapshot, e) == collect_then_visit(c, snapshot, e, <<>>)

\* The shortest prefix of the snapshot that ends with a matching handler.
MatchingPrefix(snapshot, e) ==
  LET hits == {n \in 1..Len(snapshot) : matches(snapshot[n], e)}
  IN IF hits = {} THEN <<>>
     ELSE SubSeq(snapshot, 1, CHOOSE n \in hits : \A m \in hits : n <= m)

\* Variant: the walk stops after the first handler that matches.
for_event_handler_in_first_match(c, snapshot, e) ==
  LET n == Len(MatchingPrefix(snapshot, e)) IN
  IF n = 0 THEN c
  ELSE
    LET r == call_handler(c, snapshot[n], e) IN
    IF r.c.raised \/ r.ret = "None" THEN r.c
    ELSE IF ~is_a_subclass(r.ret) THEN [r.c EXCEPT !.raised = TRUE]
    ELSE visit(r.c, r.ret, e)

RECURSIVE for_event_handler_in(_, _, _)
for_event_handler_in(c, snapshot, e) ==
  IF snapshot = <<>> \/ c.raised
    THEN c
    ELSE
      LET h == Head(snapshot) IN
      IF matches(h, e)
        THEN
          LET r == call_handler(c, h, e) IN
          IF r.c.raised THEN r.c
          ELSE IF r.ret = "None" THEN for_event_handler_in(r.c, Tail(snapshot), e)
          ELSE IF ~is_a_subclass(r.ret) THEN [r.c EXCEPT !.raised = TRUE]
          ELSE for_event_handler_in(visit(r.c, r.ret, e), Tail(snapshot), e)
        ELSE for_event_handler_in(c, Tail(snapshot), e)

\* Variant: the walk goes over the live deque, so after the snapshot's handlers
\* it reaches the handlers that were registered during the dispatch.
process_event_live(c, e) ==
  LET c1 == [c EXCEPT !.log = Append(@, DispatchEntry(e, c.handlers, ChildrenOf(c, e)))]
      c2 == for_event_handler_in(c1, c1.handlers, e)
      new == SubSeq(c2.handlers, 1, Len(c2.handlers) - Len(c1.handlers))
      c3 == for_event_handler_in(c2, new, e)
  IN [c3 EXCEPT !.log = Append(@, LogEntry(IF c3.raised THEN "raise" ELSE "return",
                                           e, NoHandler, "none"))]

process_event(c, e) ==
  LET c1 == [c EXCEPT !.log = Append(@, DispatchEntry(e, c.handlers, ChildrenOf(c, e)))]
      c2 == for_event_handler_in(c1, tuple(c1.handlers), e)
  IN [c2 EXCEPT !.log = Append(@, LogEntry(IF c2.raised THEN "raise" ELSE "return",
                                           e, NoHandler, "none"))]

process_one_event(c) ==
  LET next_event == Head(c.queue)
  IN process_event([c EXCEPT !.queue = Tail(@)], next_event)

\* ------------------------------------------------------- cmd of ExecuteProcess
\* The values a cmd argument is made of: a Python str, a Substitution that
\* resolves to a text, and a list of values.  A text is a sequence of characters.
Str(t) == [kind |-> "str", text |-> t, items |-> <<>>]
Substitution(t) == [kind |-> "Substitution", text |-> t, items |-> <<>>]
List(xs) == [kind |-> "list", text |-> <<>>, items |-> xs]

\* TextSubstitution(text=t): a Substitution that resolves to t.
TextSubstitution(t) == Substitution(t)

\* FindExecutable(name=n): a Substitution that resolves, against the context,
\* to the path under which the executable n is found when it is resolved.
FindExecutable(n) == [kind |-> "FindExecutable", text |-> n, items |-> <<>>]

\* isinstance(x, Substitution)
is_substitution(x) == x.kind \in {"Substitution", "FindExecutable"}

\* The directories an executable may be found in when a cmd is resolved.
SearchPaths == {<<"x">>, <<"y">>}

\* The ExecuteProcess actions (the objects that carry _final_cmd).
ExecuteProcessActions == {1, 2}

SeqsUpTo(S, n) == UNION {[1..k -> S] : k \in 1..n}

\* The cmd arguments tried: a str, a Substitution, or a list whose elements
\* are a str, a Substitution, or a list of those.
Atoms == {Str(<<"a">>), Substitution(<<"b">>)}
Elements == Atoms \cup {List(xs) : xs \in SeqsUpTo(Atoms, MaxItems)}
Templates == Atoms \cup {List(xs) : xs \in SeqsUpTo(Elements, MaxCmdLen)}

TypeError == [raised |-> TRUE, value |-> <<>>]
Returns(v) == [raised |-> FALSE, value |-> v]

normalize(x) ==
  IF is_substitution(x) THEN Returns(x)
  ELSE IF x.kind = "str" THEN Returns(TextSubstitution(x.text))
  ELSE TypeError

normalize_to_list_of_substitutions(subs) ==
  IF subs.kind = "str" THEN Returns(<<TextSubstitution(subs.text)>>)
  ELSE IF is_substitution(subs) THEN Returns(<<subs>>)
  ELSE
    LET ys == [k \in 1..Len(subs.items) |-> normalize(subs.items[k])] IN
    IF \E k \in 1..Len(ys) : ys[k].raised
      THEN TypeError
      ELSE Returns([k \in 1..Len(ys) |-> ys[k].value])

\* LaunchContext.perform_substitution: substitution.perform(context); `path` is
\* what the context's environment makes of an executable's name at that moment.
perform_substitution(x, path) == IF x.kind = "FindExecutable" THEN path \o x.text ELSE x.text

\* __execute_process, line 167: the resolved cmd.
resolve_cmd(template, path) ==
  [k \in 1..Len(template) |-> perform_substitution(template[k], path)]

\* ------------------------------------------------------- state machine
InitService ==
  /\ event_queue = <<>>
  /\ event_handlers =
       register_event_handler(
         register_event_handler([handlers |-> <<>>], Handler("on_include", 0)),
         Handler("on_shutdown", 0)).handlers
  /\ async_event_handlers = <<>>
  /\ asyncio_loop = "None"
  /\ running = FALSE
  /\ loop_from_run_thread = "None"
  /\ run_pc = [t \in Threads |-> "idle"]
  /\ run_local = [t \in Threads |-> FALSE]
  /\ run_result = [t \in Threads |-> "unset"]
  /\ stopping = [t \in Threads |-> FALSE]
  /\ tasks = <<>>
  /\ enq = <<>>
  /\ log = <<>>

\* LaunchTestService.__init__: no test is known.  Tests 1 and 2 are named after
\* the action they were added with, test 3 is the output test of action 1
\* (add_output_test names it after the action and a suffix).
NoTests == [a \in {1, 2, 3} |-> "none"]

\* No process has a return code recorded, no method was called.
NoTestCalls ==
  /\ processes_rc = <<>>
  /\ test_ret = NoCall

\* No event handler is being constructed.
NoHandlerConstruction ==
  /\ arg_target = "none"
  /\ handler_class = "none"
  /\ handler_pc = "none"

\* The service after construction; no ExecuteProcess is being constructed.
Init ==
  /\ InitService
  /\ NoHandlerConstruction
  /\ tests = NoTests
  /\ NoTestCalls
  /\ arg_cmd = <<>>
  /\ cmd = <<>>
  /\ final_cmd = [a \in ExecuteProcessActions |-> <<>>]
  /\ cmd_pc = "none"

\* Write back the context record a step produced.
Store(c) ==
  /\ event_queue' = c.queue
  /\ event_handlers' = c.handlers
  /\ async_event_handlers' = c.async_handlers
  /\ running' = c.running
  /\ tasks' = c.tasks
  /\ tests' = c.tests
  /\ processes_rc' = c.processes_rc
  /\ test_ret' = c.test_ret
  /\ enq' = c.enq
  /\ log' = c.log

Includes ==
  Cardinality({i \in 1..Len(enq) :
                 enq[i].name = N_Include /\ enq[i].desc \notin RequestDescriptions})

Requests ==
  Cardinality({i \in 1..Len(enq) :
                 enq[i].name = N_Include /\ enq[i].desc \in RequestDescriptions})

\* LaunchService.include_launch_description, callable from any thread at any time.
IncludeLaunchDescription(d) ==
  /\ IF d \in RequestDescriptions THEN Requests < MaxRequests ELSE Includes < MaxIncludes
  /\ Len(enq) < MaxEvents
  /\ Store(emit_event_sync(Ctx, Event(N_Include, d, 0, 0, 0)))
  /\ UNCHANGED <<asyncio_loop, loop_from_run_thread, run_pc, run_local, run_result, stopping>>
  /\ UNCHANGED cmd_vars

\* LaunchService.run, lines 114-117: the guard under __running_lock.
RunEnter(t) ==
  /\ run_pc[t] = "idle"
  /\ IF running
       THEN /\ run_pc' = [run_pc EXCEPT ![t] = "rejected"]
            /\ run_result' = [run_result EXCEPT ![t] = "RuntimeError"]
            /\ UNCHANGED running
       ELSE /\ run_pc' = [run_pc EXCEPT ![t] = "entered"]
            /\ running' = TRUE
            /\ UNCHANGED run_result
  /\ UNCHANGED <<event_queue, event_handlers, async_event_handlers, asyncio_loop, loop_from_run_thread,
                 run_local, stopping, tasks, enq, log, test_vars>>
  /\ UNCHANGED cmd_vars

\* LaunchService.run, lines 118-128, and the first read of __running in __run_loop.
RunSetLoop(t) ==
  /\ run_pc[t] = "entered"
  /\ loop_from_run_thread' = t
  /\ asyncio_loop' = t
  /\ run_local' = [run_local EXCEPT ![t] = running]
  /\ run_pc' = [run_pc EXCEPT ![t] = "loop"]
  /\ UNCHANGED <<event_queue, event_handlers, async_event_handlers, running, run_result, stopping,
                 tasks, enq, log, test_vars>>
  /\ UNCHANGED cmd_vars

\* One turn of __run_loop: await _process_one_event(), then re-read __running.
\* An exception raised by the dispatch leaves run() through run_until_complete.
ProcessOneEvent(t) ==
  /\ run_pc[t] = "loop"
  /\ run_local[t]
  /\ event_queue # <<>>
  /\ LET c == process_one_event(Ctx) IN
       /\ Len(c.enq) <= MaxEvents
       /\ Store(c)
       /\ IF c.raised
            THEN /\ run_pc' = [run_pc EXCEPT ![t] = "crashed"]
                 /\ run_result' = [run_result EXCEPT ![t] = "Exception"]
                 /\ stopping' = [stopping EXCEPT ![t] = FALSE]
                 /\ UNCHANGED run_local
            ELSE /\ run_local' = [run_local EXCEPT ![t] = c.running]
                 /\ UNCHANGED <<run_pc, run_result, stopping>>
  /\ UNCHANGED <<asyncio_loop, loop_from_run_thread>>
  /\ UNCHANGED cmd_vars

\* The two halves of one turn of __run_loop, for the threads that interleave
\* with it.  `await self.__context._process_one_event()`: the dispatch alone.
DispatchOneEvent(t) ==
  /\ run_pc[t] = "loop"
  /\ run_local[t]
  /\ event_queue # <<>>
  /\ LET c == process_one_event(Ctx) IN
       /\ Len(c.enq) <= MaxEvents
       /\ Store(c)
       /\ IF c.raised
            THEN /\ run_pc' = [run_pc EXCEPT ![t] = "crashed"]
                 /\ run_result' = [run_result EXCEPT ![t] = "Exception"]
                 /\ stopping' = [stopping EXCEPT ![t] = FALSE]
            ELSE /\ run_pc' = [run_pc EXCEPT ![t] =
                        IF Head(event_queue).name = N_Shutdown
                          THEN "shutdown_dispatched" ELSE "event_dispatched"]
                 /\ UNCHANGED <<run_result, stopping>>
  /\ UNCHANGED <<asyncio_loop, loop_from_run_thread, run_local>>
  /\ UNCHANGED cmd_vars

\* `with self.__running_lock: running = self.__running` after the dispatch.
ReadRunning(t) ==
  /\ run_pc[t] \in {"shutdown_dispatched", "event_dispatched"}
  /\ run_local' = [run_local EXCEPT ![t] = running]
  /\ run_pc' = [run_pc EXCEPT ![t] = "loop"]
  /\ UNCHANGED <<event_queue, event_handlers, async_event_handlers, asyncio_loop, running,
                 loop_from_run_thread, run_result, stopping, tasks, enq, log, test_vars>>
  /\ UNCHANGED cmd_vars

\* __run_loop ends (running is false); run() lines 133-137.  run() has no
\* return statement: the caller gets None.
RunReturn(t) ==
  /\ run_pc[t] = "loop"
  /\ ~run_local[t]
  /\ loop_from_run_thread' = "None"
  /\ asyncio_loop' = "None"
  /\ running' = FALSE
  /\ run_pc' = [run_pc EXCEPT ![t] = "returned"]
  /\ run_result' = [run_result EXCEPT ![t] = "None"]
  /\ stopping' = [stopping EXCEPT ![t] = FALSE]
  /\ UNCHANGED <<event_queue, event_handlers, async_event_handlers, run_local, tasks, enq, log, test_vars>>
  /\ UNCHANGED cmd_vars

\* LaunchTestService.run, after launch_service.run has returned to it.
TestRunReturn(t) ==
  /\ run_pc[t] = "returned"
  /\ test_ret.call # "run"
  /\ test_ret' = Call("run", 0, "None",
                      test_service_run(IF run_result[t] = "None" THEN PyNone
                                       ELSE PyInt(run_result[t]),
                                       tests, processes_rc))
  /\ UNCHANGED <<core_vars, tests, processes_rc, cmd_vars>>

\* LaunchService.shutdown, callable from any thread at any time: stop() on the
\* loop of the run thread when there is one, nothing otherwise.
Shutdown ==
  /\ IF loop_from_run_thread # "None"
       THEN stopping' = [stopping EXCEPT ![loop_from_run_thread] = TRUE]
       ELSE UNCHANGED stopping
  /\ UNCHANGED <<event_queue, event_handlers, async_event_handlers, asyncio_loop, running,
                 loop_from_run_thread, run_pc, run_local, run_result, tasks, enq, log, test_vars>>
  /\ UNCHANGED cmd_vars

\* run() line 128 after stop(): the loop leaves run_until_complete while
\* run_loop_task is not done, which raises RuntimeError('Event loop stopped
\* before Future completed.'); only KeyboardInterrupt is caught (and re-raised),
\* so the error leaves run() and lines 133-137 are skipped.
RunStopped(t) ==
  /\ run_pc[t] = "loop"
  /\ run_local[t]
  /\ stopping[t]
  /\ run_pc' = [run_pc EXCEPT ![t] = "stopped"]
  /\ run_result' = [run_result EXCEPT ![t] = "RuntimeError"]
  /\ stopping' = [stopping EXCEPT ![t] = FALSE]
  /\ UNCHANGED <<event_queue, event_handlers, async_event_handlers, asyncio_loop, running,
                 loop_from_run_thread, run_local, tasks, enq, log, test_vars>>
  /\ UNCHANGED cmd_vars

\* The asyncio loop that owns task i is inside run_until_complete.
LoopRunning(i) == run_pc[tasks[i].loop] = "loop"

SetTask(c, i, t) == [c EXCEPT !.tasks[i] = t]

\* A process event of coroutine i: it carries the _final_cmd its action has now.
ProcessEvent(name, i, rc) ==
  [Event(name, "none", tasks[i].action, i, rc) EXCEPT !.cmd = final_cmd[tasks[i].action]]

\* __execute_process up to `await async_execute_process(...)`: the cmd is
\* resolved and stored on the action, and the OS starts the child with it or
\* refuses to.
TaskStart(i, ok, path) ==
  /\ LoopRunning(i)
  /\ tasks[i].pc = "created"
  /\ final_cmd' = [final_cmd EXCEPT ![tasks[i].action] = resolve_cmd(cmd, path)]
  /\ tasks' = [tasks EXCEPT ![i] =
       IF ok THEN [@ EXCEPT !.pc = "await_spawn", !.child = "alive",
                            !.cmd = resolve_cmd(cmd, path)]
             ELSE [@ EXCEPT !.pc = "failed"]]
  /\ UNCHANGED <<event_queue, event_handlers, async_event_handlers, asyncio_loop, running,
                 loop_from_run_thread, run_pc, run_local, run_result, stopping,
                 enq, log, test_vars>>
  /\ UNCHANGED <<arg_cmd, cmd, cmd_pc, handler_vars>>

\* __execute_process resumes with (transport, protocol) and emits ProcessStarted.
TaskSpawned(i) ==
  /\ LoopRunning(i)
  /\ tasks[i].pc = "await_spawn"
  /\ Len(enq) < MaxEvents
  /\ Store(emit_event(SetTask(Ctx, i, [tasks[i] EXCEPT !.pc = "await_complete"]),
                      ProcessEvent(N_ProcessStarted, i, 0)))
  /\ UNCHANGED <<asyncio_loop, loop_from_run_thread, run_pc, run_local, run_result, stopping>>
  /\ UNCHANGED cmd_vars

\* ProcessStdout(action=..., cmd=..., text=data)
ProcessStdout(i, data) == [ProcessEvent(N_ProcessStdout, i, 0) EXCEPT !.text = data]

\* Variant: data of the stderr pipe is reported as a ProcessStdout.
ProcessStderr_as_stdout(i, data) == [ProcessEvent(N_ProcessStdout, i, 0) EXCEPT !.text = data]

\* ProcessStderr(action=..., cmd=..., text=data)
ProcessStderr(i, data) == [ProcessEvent(N_ProcessStderr, i, 0) EXCEPT !.text = data]

\* __ProcessProtocol.on_stdout_received: a chunk read from the child's stdout
\* pipe, at most `limit` of them.
on_stdout_received(i, limit) ==
  /\ LoopRunning(i)
  /\ tasks[i].child # "none"
  /\ tasks[i].out < limit
  /\ Len(enq) < MaxEvents
  /\ Store(emit_event_sync(SetTask(Ctx, i, [tasks[i] EXCEPT !.out = @ + 1]),
                           ProcessStdout(i, tasks[i].out + 1)))
  /\ UNCHANGED <<asyncio_loop, loop_from_run_thread, run_pc, run_local, run_result, stopping>>
  /\ UNCHANGED cmd_vars

OnStdoutReceived(i) == on_stdout_received(i, MaxChunks)

\* __ProcessProtocol.on_stderr_received: a chunk read from the child's stderr
\* pipe, at most `limit` of them.
on_stderr_received(i, limit) ==
  /\ LoopRunning(i)
  /\ tasks[i].child # "none"
  /\ tasks[i].err < limit
  /\ Len(enq) < MaxEvents
  /\ Store(emit_event_sync(SetTask(Ctx, i, [tasks[i] EXCEPT !.err = @ + 1]),
                           ProcessStderr(i, tasks[i].err + 1)))
  /\ UNCHANGED <<asyncio_loop, loop_from_run_thread, run_pc, run_local, run_result, stopping>>
  /\ UNCHANGED cmd_vars

OnStderrReceived(i) == on_stderr_received(i, MaxChunks)

\* The child terminates with a return code; this completes protocol.complete.
ChildExit(i, rc) ==
  /\ tasks[i].child = "alive"
  /\ tasks' = [tasks EXCEPT ![i] = [@ EXCEPT !.child = "exited", !.rc = rc]]
  /\ UNCHANGED <<event_queue, event_handlers, async_event_handlers, asyncio_loop, running,
                 loop_from_run_thread, run_pc, run_local, run_result, stopping,
                 enq, log, test_vars>>
  /\ UNCHANGED cmd_vars

\* __execute_process resumes from `await protocol.complete` and emits ProcessExited.
TaskCompleted(i) ==
  /\ LoopRunning(i)
  /\ tasks[i].pc = "await_complete"
  /\ tasks[i].child = "exited"
  /\ Len(enq) < MaxEvents
  /\ Store(emit_event(SetTask(Ctx, i, [tasks[i] EXCEPT !.pc = "done"]),
                      ProcessEvent(N_ProcessExited, i, tasks[i].rc)))
  /\ UNCHANGED <<asyncio_loop, loop_from_run_thread, run_pc, run_local, run_result, stopping>>
  /\ UNCHANGED cmd_vars

Next ==
  \/ \E d \in Descriptions : IncludeLaunchDescription(d)
  \/ \E t \in Threads : RunEnter(t)
  \/ \E t \in Threads : RunSetLoop(t)
  \/ \E t \in Threads : ProcessOneEvent(t)
  \/ \E t \in Threads : RunReturn(t)
  \/ \E i \in 1..Len(tasks), ok \in BOOLEAN, path \in SearchPaths : TaskStart(i, ok, path)
  \/ \E i \in 1..Len(tasks) : TaskSpawned(i)
  \/ \E i \in 1..Len(tasks) : OnStdoutReceived(i)
  \/ \E i \in 1..Len(tasks) : OnStderrReceived(i)
  \/ \E i \in 1..Len(tasks), rc \in ReturnCodes : ChildExit(i, rc)
  \/ \E i \in 1..Len(tasks) : TaskCompleted(i)

Spec == Init /\ [][Next]_vars

\* The service as above with a child that writes bursts of chunks to its pipes.
NextBurst ==
  \/ \E d \in Descriptions : IncludeLaunchDescription(d)
  \/ \E t \in Threads : RunEnter(t)
  \/ \E t \in Threads : RunSetLoop(t)
  \/ \E t \in Threads : ProcessOneEvent(t)
  \/ \E t \in Threads : RunReturn(t)
  \/ \E i \in 1..Len(tasks), ok \in BOOLEAN, path \in SearchPaths : TaskStart(i, ok, path)
  \/ \E i \in 1..Len(tasks) : TaskSpawned(i)
  \/ \E i \in 1..Len(tasks) : on_stdout_received(i, MaxBurst)
  \/ \E i \in 1..Len(tasks) : on_stderr_received(i, MaxBurst)
  \/ \E i \in 1..Len(tasks), rc \in ReturnCodes : ChildExit(i, rc)
  \/ \E i \in 1..Len(tasks) : TaskCompleted(i)

SpecBurst == Init /\ [][NextBurst]_vars

\* The service as above, and with it the calls of shutdown() from other threads
\* and the descriptions that emit events addressed to an ExecuteProcess action.
NextControl ==
  \/ Next
  \/ Shutdown
  \/ \E t \in Threads : RunStopped(t)
  \/ \E d \in RequestDescriptions : IncludeLaunchDescription(d)

SpecControl == Init /\ [][NextControl]_vars

\* run() line 128 with nothing ready on the loop: the queue is empty, so the
\* `await self.__event_queue.get()` of _process_one_event (launch_context.py:50)
\* waits, no coroutine is about to start, and the loop blocks in its selector.
RunBlocks(t) ==
  /\ run_pc[t] = "loop"
  /\ run_local[t]
  /\ event_queue = <<>>
  /\ \A i \in 1..Len(tasks) : tasks[i].loop = t => tasks[i].pc # "created"
  /\ run_pc' = [run_pc EXCEPT ![t] = "select"]
  /\ UNCHANGED <<event_queue, event_handlers, async_event_handlers, asyncio_loop, running,
                 loop_from_run_thread, run_local, run_result, stopping, tasks, enq, log, test_vars>>
  /\ UNCHANGED cmd_vars

\* The selector returns because a child of the loop has become ready (spawned,
\* wrote to a pipe, exited).  An event put into the queue by another thread
\* does not make it return: put_nowait (launch_context.py:84) hands the waiting
\* getter over with call_soon, which does not wake a loop blocked in select.
LoopWakes(t) ==
  /\ run_pc[t] = "select"
  /\ \E i \in 1..Len(tasks) :
       tasks[i].loop = t /\ tasks[i].pc \in {"await_spawn", "await_complete"}
  /\ run_pc' = [run_pc EXCEPT ![t] = "loop"]
  /\ UNCHANGED <<event_queue, event_handlers, async_event_handlers, asyncio_loop, running,
                 loop_from_run_thread, run_local, run_result, stopping, tasks, enq, log, test_vars>>
  /\ UNCHANGED cmd_vars

\* run() lines 127-131: KeyboardInterrupt is raised inside run_until_complete
\* and re-raised by the except clause, so lines 133-137 are skipped.
KeyboardInterrupt(t) ==
  /\ run_pc[t] \in {"loop", "select"}
  /\ run_pc' = [run_pc EXCEPT ![t] = "interrupted"]
  /\ run_result' = [run_result EXCEPT ![t] = "KeyboardInterrupt"]
  /\ stopping' = [stopping EXCEPT ![t] = FALSE]
  /\ UNCHANGED <<event_queue, event_handlers, async_event_handlers, asyncio_loop, running,
                 loop_from_run_thread, run_local, tasks, enq, log, test_vars>>
  /\ UNCHANGED cmd_vars

\* The steps that the thread inside run() takes on its own.
LoopSteps ==
  \/ \E t \in Threads : RunSetLoop(t)
  \/ \E t \in Threads : ProcessOneEvent(t)
  \/ \E t \in Threads : RunReturn(t)
  \/ \E t \in Threads : RunBlocks(t)
  \/ \E t \in Threads : LoopWakes(t)
  \/ \E i \in 1..Len(tasks), ok \in BOOLEAN, path \in SearchPaths : TaskStart(i, ok, path)
  \/ \E i \in 1..Len(tasks) : TaskSpawned(i)
  \/ \E i \in 1..Len(tasks) : TaskCompleted(i)

\* The service with the blocking of the loop, called from several threads.
NextThreads ==
  \/ \E d \in Descriptions : IncludeLaunchDescription(d)
  \/ \E t \in Threads : RunEnter(t)
  \/ \E t \in Threads : KeyboardInterrupt(t)
  \/ \E i \in 1..Len(tasks) : OnStdoutReceived(i)
  \/ \E i \in 1..Len(tasks) : OnStderrReceived(i)
  \/ \E i \in 1..Len(tasks), rc \in ReturnCodes : ChildExit(i, rc)
  \/ LoopSteps

\* The thread inside run() keeps taking the steps it can take.
SpecThreads == Init /\ [][NextThreads]_vars /\ WF_vars(LoopSteps)

\* The service given a description with nested entities.  Nothing in it emits
\* Shutdown, so __run_loop does not end.
NextTree ==
  \/ \E d \in TreeDescriptions : IncludeLaunchDescription(d)
  \/ \E t \in Threads : RunEnter(t)
  \/ \E t \in Threads : RunSetLoop(t)
  \/ \E t \in Threads : ProcessOneEvent(t)
  \/ \E i \in 1..Len(tasks), ok \in BOOLEAN, path \in SearchPaths : TaskStart(i, ok, path)
  \/ \E i \in 1..Len(tasks) : TaskSpawned(i)
  \/ \E i \in 1..Len(tasks) : OnStdoutReceived(i)
  \/ \E i \in 1..Len(tasks) : OnStderrReceived(i)
  \/ \E i \in 1..Len(tasks), rc \in ReturnCodes : ChildExit(i, rc)
  \/ \E i \in 1..Len(tasks) : TaskCompleted(i)

SpecTree == Init /\ [][NextTree]_vars

\* The service given a description that registers an async handler.
NextAsync ==
  \/ \E d \in AsyncDescriptions : IncludeLaunchDescription(d)
  \/ \E t \in Threads : RunEnter(t)
  \/ \E t \in Threads : RunSetLoop(t)
  \/ \E t \in Threads : ProcessOneEvent(t)
  \/ \E i \in 1..Len(tasks), ok \in BOOLEAN, path \in SearchPaths : TaskStart(i, ok, path)
  \/ \E i \in 1..Len(tasks) : TaskSpawned(i)
  \/ \E i \in 1..Len(tasks) : OnStdoutReceived(i)
  \/ \E i \in 1..Len(tasks) : OnStderrReceived(i)
  \/ \E i \in 1..Len(tasks), rc \in ReturnCodes : ChildExit(i, rc)
  \/ \E i \in 1..Len(tasks) : TaskCompleted(i)

SpecAsync == Init /\ [][NextAsync]_vars

\* The service given a description with a user's handler for Shutdown, with
\* the lock of __running released between the dispatch and the loop's read.
NextShutdown ==
  \/ \E d \in ShutdownDescriptions : IncludeLaunchDescription(d)
  \/ \E t \in Threads : RunEnter(t)
  \/ \E t \in Threads : RunSetLoop(t)
  \/ \E t \in Threads : DispatchOneEvent(t)
  \/ \E t \in Threads : ReadRunning(t)
  \/ \E t \in Threads : RunReturn(t)
  \/ \E i \in 1..Len(tasks), ok \in BOOLEAN, path \in SearchPaths : TaskStart(i, ok, path)
  \/ \E i \in 1..Len(tasks) : TaskSpawned(i)
  \/ \E i \in 1..Len(tasks) : OnStdoutReceived(i)
  \/ \E i \in 1..Len(tasks) : OnStderrReceived(i)
  \/ \E i \in 1..Len(tasks), rc \in ReturnCodes : ChildExit(i, rc)
  \/ \E i \in 1..Len(tasks) : TaskCompleted(i)

SpecShutdown == Init /\ [][NextShutdown]_vars

\* The service given one of the scenario descriptions, whose ExecuteProcess
\* actions were constructed with cmd=[FindExecutable(name='w')]; the first of
\* them was added to its description with LaunchTestService.add_test_action.
InitScenarios ==
  /\ InitService
  /\ NoHandlerConstruction
  /\ tests = _arm(NoTests, 1).tests
  /\ NoTestCalls
  /\ arg_cmd = List(<<FindExecutable(<<"w">>)>>)
  /\ cmd = normalize_to_list_of_substitutions(arg_cmd).value
  /\ final_cmd = [a \in ExecuteProcessActions |-> <<>>]
  /\ cmd_pc = "constructed"

\* run() is called through LaunchTestService.run.
NextScenarios ==
  \/ \E d \in ScenarioDescriptions : IncludeLaunchDescription(d)
  \/ \E t \in Threads : RunEnter(t)
  \/ \E t \in Threads : RunSetLoop(t)
  \/ \E t \in Threads : ProcessOneEvent(t)
  \/ \E t \in Threads : RunReturn(t)
  \/ \E t \in Threads : TestRunReturn(t)
  \/ \E i \in 1..Len(tasks), ok \in BOOLEAN, path \in SearchPaths : TaskStart(i, ok, path)
  \/ \E i \in 1..Len(tasks) : TaskSpawned(i)
  \/ \E i \in 1..Len(tasks) : OnStdoutReceived(i)
  \/ \E i \in 1..Len(tasks) : OnStderrReceived(i)
  \/ \E i \in 1..Len(tasks), rc \in ReturnCodes : ChildExit(i, rc)
  \/ \E i \in 1..Len(tasks) : TaskCompleted(i)

SpecScenarios == InitScenarios /\ [][NextScenarios]_vars

\* ------------------------------------------------------- construction of cmd
InitCmd ==
  /\ InitService
  /\ NoHandlerConstruction
  /\ tests = NoTests
  /\ NoTestCalls
  /\ arg_cmd \in Templates
  /\ cmd = <<>>
  /\ final_cmd = [a \in ExecuteProcessActions |-> <<>>]
  /\ cmd_pc = "given"

\* ExecuteProcess.__init__, line 102.
Construct ==
  /\ cmd_pc = "given"
  /\ LET r == normalize_to_list_of_substitutions(arg_cmd) IN
       IF r.raised
         THEN cmd_pc' = "TypeError" /\ UNCHANGED cmd
         ELSE cmd_pc' = "constructed" /\ cmd' = r.value
  /\ UNCHANGED <<arg_cmd, final_cmd, handler_vars>>
  /\ UNCHANGED service_vars

\* ExecuteProcess.__execute_process, line 167, of the action constructed.
Expand ==
  /\ cmd_pc = "constructed"
  /\ \E path \in SearchPaths : final_cmd' = [final_cmd EXCEPT ![1] = resolve_cmd(cmd, path)]
  /\ cmd_pc' = "expanded"
  /\ UNCHANGED <<arg_cmd, cmd, handler_vars>>
  /\ UNCHANGED service_vars

NextCmd == Construct \/ Expand

SpecCmd == InitCmd /\ [][NextCmd]_vars

\* The service given a description with a process, an OnProcessIO and an
\* OnProcessExit handler for it, an OnProcessIO handler for another process,
\* and a ProcessStdin event addressed to that other process.
IODescriptions == {"io"}

NextIO ==
  \/ \E d \in IODescriptions : IncludeLaunchDescription(d)
  \/ \E t \in Threads : RunEnter(t)
  \/ \E t \in Threads : RunSetLoop(t)
  \/ \E t \in Threads : ProcessOneEvent(t)
  \/ \E i \in 1..Len(tasks), ok \in BOOLEAN, path \in SearchPaths : TaskStart(i, ok, path)
  \/ \E i \in 1..Len(tasks) : TaskSpawned(i)
  \/ \E i \in 1..Len(tasks) : OnStdoutReceived(i)
  \/ \E i \in 1..Len(tasks) : OnStderrReceived(i)
  \/ \E i \in 1..Len(tasks), rc \in ReturnCodes : ChildExit(i, rc)
  \/ \E i \in 1..Len(tasks) : TaskCompleted(i)

SpecIO == Init /\ [][NextIO]_vars

\* ------------------------------------------------------- statuses of the tests
TestNames == DOMAIN NoTests
SideEffects == {"None", "shutdown"}

\* self._arm(test_name), as add_test_action and add_output_test call it.
Arm(t) ==
  /\ LET r == _arm(tests, t) IN
       /\ tests' = r.tests
       /\ test_ret' = Call("_arm", t, "None", r.ret)
  /\ UNCHANGED <<core_vars, processes_rc, cmd_vars>>

\* self._fail(test_name, reason)
Fail(t) ==
  /\ LET r == _fail(tests, t) IN
       /\ tests' = r.tests
       /\ test_ret' = Call("_fail", t, "None", r.ret)
  /\ UNCHANGED <<core_vars, processes_rc, cmd_vars>>

\* self._succeed(test_name, side_effect)
Succeed(t, side_effect) ==
  /\ LET r == _succeed(tests, t, side_effect) IN
       /\ tests' = r.tests
       /\ test_ret' = Call("_succeed", t, side_effect, r.ret)
  /\ UNCHANGED <<core_vars, processes_rc, cmd_vars>>

NextStatus ==
  \/ \E t \in TestNames : Arm(t)
  \/ \E t \in TestNames : Fail(t)
  \/ \E t \in TestNames, side_effect \in SideEffects : Succeed(t, side_effect)

\* The methods called in any order on a service that knows no test yet.
SpecStatus == Init /\ [][NextStatus]_vars

\* ------------------------------------------------------- construction errors
\* An object that is neither a str nor a Substitution nor a list.
Other == [kind |-> "int", text |-> <<>>, items |-> <<>>]

\* The cmd arguments given to ExecuteProcess.__init__: the templates, and the
\* lists that may hold such an object.
ConstructorCmds == Templates \cup {List(xs) : xs \in SeqsUpTo(Atoms \cup {Other}, MaxCmdLen)}

\* The target_action arguments given to OnProcessExit and OnProcessIO: left
\* out, None, or an entity.
ConstructorTargets == {"omitted", "None", "exec1", "exec2", "log", "reg_echo", "tree"}

HandlerClasses == {"OnProcessExit", "OnProcessIO"}

\* isinstance(target_action, ExecuteProcess)
isinstance_ExecuteProcess(x) ==
  x \in DOMAIN EntityTable /\ EntityTable[x].kind = "ExecuteProcess"

\* Variant: the constructor keeps whatever target it is given.
handler_init_unchecked(target_action) ==
  IF target_action = "omitted" THEN "TypeError" ELSE "constructed"

\* OnProcessExit.__init__ and OnProcessIO.__init__: target_action is a
\* keyword-only parameter without default, so the call fails with TypeError
\* when it is left out; the body then checks its class.
handler_init(target_action) ==
  IF target_action = "omitted" THEN "TypeError"
  ELSE IF ~isinstance_ExecuteProcess(target_action) THEN "RuntimeError"
  ELSE "constructed"

\* An ExecuteProcess and an event handler are about to be constructed.
InitConstruct ==
  /\ InitService
  /\ tests = NoTests
  /\ NoTestCalls
  /\ arg_cmd \in ConstructorCmds
  /\ cmd = <<>>
  /\ final_cmd = [a \in ExecuteProcessActions |-> <<>>]
  /\ cmd_pc = "given"
  /\ arg_target \in ConstructorTargets
  /\ handler_class \in HandlerClasses
  /\ handler_pc = "given"

\* OnProcessExit(target_action=..., on_exit=...), OnProcessIO(target_action=..., ...)
ConstructHandler ==
  /\ handler_pc = "given"
  /\ handler_pc' = handler_init(arg_target)
  /\ UNCHANGED <<arg_target, handler_class>>
  /\ UNCHANGED <<arg_cmd, cmd, final_cmd, cmd_pc>>
  /\ UNCHANGED service_vars

NextConstruct == Construct \/ ConstructHandler

SpecConstruct == InitConstruct /\ [][NextConstruct]_vars

\* ------------------------------------------------------- reading the history
IsDispatch(x) == x.op = "dispatch"
IsCall(x) == x.op = "call"
IsEnd(x) == x.op \in {"return", "raise"}

Dispatches == {i \in 1..Len(log) : IsDispatch(log[i])}

\* The entry that closes the dispatch opened at log[i].
EndOf(i) ==
  CHOOSE j \in (i + 1)..Len(log) :
    IsEnd(log[j]) /\ \A k \in (i + 1)..(j - 1) : ~IsEnd(log[k])

EventOf(i) == enq[log[i].e]

\* The handlers called, in order, during the dispatch opened at log[i].
SeqOfH(entries) == [k \in 1..Len(entries) |-> entries[k].h]
Calls(i) == SeqOfH(SelectSeq(SubSeq(log, i + 1, EndOf(i) - 1), IsCall))

MatchingIn(snapshot, e) == SelectSeq(snapshot, LAMBDA h : matches(h, e))

\* Number of handlers registered when the dispatch opened at log[i] ended.
RegsAfter(i) ==
  LET later == {j \in Dispatches : j > i}
  IN IF later = {} THEN Len(event_handlers)
     ELSE Len(log[CHOOSE j \in later : \A k \in later : j <= k].snap)

RECURSIVE Preorder(_)
RECURSIVE PreorderAll(_)
PreorderAll(items) ==
  IF items = <<>> THEN <<>> ELSE Preorder(Head(items)) \o PreorderAll(Tail(items))
Preorder(ent) == <<ent>> \o PreorderAll(EntityTable[ent].items)

\* ------------------------------------------------------- properties
\* C1: events are dispatched in exactly the order they were enqueued, whichever
\* of emit_event and emit_event_sync enqueued them: the k-th dispatch is of the
\* k-th event enqueued (so none is dispatched twice), the queue holds exactly
\* the events not yet dispatched in enqueue order, and one dispatch starts and
\* ends before the next one starts.
C1_FifoDispatch ==
  LET D == SelectSeq(log, IsDispatch) IN
  /\ \A k \in 1..Len(D) : D[k].e = k
  /\ event_queue = SubSeq(enq, Len(D) + 1, Len(enq))
  /\ \A i \in Dispatches : \A k \in i..EndOf(i) : log[k].e = log[i].e
  /\ \A k \in 1..Len(log) :
       IsDispatch(log[k]) <=> (k = 1 \/ IsEnd(log[k - 1]))

C1_Witness ==
  /\ \E i \in Dispatches : EventOf(i).name = N_ProcessStarted
  /\ \E i \in Dispatches : EventOf(i).name = N_ProcessStdout
  /\ \E i \in Dispatches : EventOf(i).name = N_ProcessStderr

\* C2: one dispatch calls the matching handlers of the registry front to back,
\* every one of them when the dispatch returns, and so a handler registered
\* later is called before a handler registered earlier.
C2_FrontToBack ==
  \A i \in Dispatches :
    LET called == Calls(i)
        expected == MatchingIn(log[i].snap, EventOf(i))
    IN /\ Len(called) <= Len(expected)
       /\ called = SubSeq(expected, 1, Len(called))
       /\ log[EndOf(i)].op = "return" => called = expected
       /\ \A a, b \in 1..Len(called) : a < b => called[a].reg > called[b].reg

C2_Witness ==
  \E i \in Dispatches : Len(Calls(i)) >= 2 /\ log[EndOf(i)].op = "return"

\* C3: a handler registered while an event is being dispatched is not called
\* for that event: every handler called during a dispatch was registered
\* before the dispatch started, and matches the event.
C3_SnapshotOnly ==
  \A i \in Dispatches :
    \A k \in (i + 1)..(EndOf(i) - 1) :
      IsCall(log[k]) =>
        /\ log[k].h.reg <= Len(log[i].snap)
        /\ matches(log[k].h, EventOf(i))

\* Two handlers that match the event were registered during its dispatch (one by
\* a handler, one by a visited entity), and a later dispatch has called one.
C3_Witness ==
  \E i \in Dispatches :
    /\ Cardinality({n \in 1..Len(event_handlers) :
          /\ event_handlers[n].reg > Len(log[i].snap)
          /\ event_handlers[n].reg <= RegsAfter(i)
          /\ matches(event_handlers[n], EventOf(i))}) >= 2
    /\ \E k \in 1..Len(log) : IsCall(log[k]) /\ log[k].h.reg > Len(log[i].snap)

CallCount(h, eid) ==
  Cardinality({k \in 1..Len(log) : IsCall(log[k]) /\ log[k].h = h /\ log[k].e = eid})

Dispatched(eid) == \E k \in 1..Len(log) : IsDispatch(log[k]) /\ log[k].e = eid
Returned(eid) == \E k \in 1..Len(log) : log[k].op = "return" /\ log[k].e = eid
Aborted(eid) == \E k \in 1..Len(log) : log[k].op = "raise" /\ log[k].e = eid

\* h was registered when e was enqueued, and its matcher accepts e.
Owes(h, e) == h.reg <= e.regs /\ matches(h, e)

RunActive(t) == run_pc[t] \in {"entered", "loop"}

\* A call of run() has returned normally and no call of run() is active.
RunHasReturned ==
  /\ \E t \in Threads : run_pc[t] = "returned"
  /\ \A t \in Threads : ~RunActive(t)

C6_HandlerFailureShutsDown ==
  \A k \in 1..Len(log) :
    log[k].op = "raise" =>
      /\ \E n \in 1..Len(enq) : enq[n].name = N_Shutdown /\ n > log[k].e
      /\ \A t \in Threads : run_pc[t] # "crashed"

EmittedBy(i, name) == {n \in 1..Len(enq) : enq[n].task = i /\ enq[n].name = name}

\* async_execute_process returned a transport and a protocol to coroutine i.
SpawnSucceeded(i) == tasks[i].pc \in {"await_complete", "done"}

\* C7: when run() has returned, every successful spawn has exactly one
\* ProcessStarted and exactly one ProcessExited among the events enqueued, the
\* ProcessStarted first.
C7_OneStartedOneExited ==
  RunHasReturned =>
    \A i \in 1..Len(tasks) :
      SpawnSucceeded(i) =>
        /\ Cardinality(EmittedBy(i, N_ProcessStarted)) = 1
        /\ Cardinality(EmittedBy(i, N_ProcessExited)) = 1
        /\ \A a \in EmittedBy(i, N_ProcessStarted), b \in EmittedBy(i, N_ProcessExited) : a < b

\* The part of C7 that the coroutine alone decides: never more than one of each,
\* ProcessExited only after ProcessStarted, and both once the coroutine is done.
StartedThenExited ==
  \A i \in 1..Len(tasks) :
    /\ Cardinality(EmittedBy(i, N_ProcessStarted)) =
         (IF tasks[i].pc \in {"await_complete", "done"} THEN 1 ELSE 0)
    /\ Cardinality(EmittedBy(i, N_ProcessExited)) = (IF tasks[i].pc = "done" THEN 1 ELSE 0)
    /\ \A a \in EmittedBy(i, N_ProcessStarted), b \in EmittedBy(i, N_ProcessExited) : a < b

\* C8: no ProcessStdout or ProcessStderr of a child is enqueued before the
\* child's ProcessStarted or after its ProcessExited.
C8_IoBetweenStartedAndExited ==
  \A n \in 1..Len(enq) :
    enq[n].name \in {N_ProcessStdout, N_ProcessStderr} =>
      /\ \E a \in EmittedBy(enq[n].task, N_ProcessStarted) : a < n
      /\ \A b \in EmittedBy(enq[n].task, N_ProcessExited) : n < b

\* C9: run() returns once the event queue is empty and no child is live, also
\* when no Shutdown was emitted: in such a state the run loop can end.
C9_RunReturnsWhenIdle ==
  \A t \in Threads :
    (/\ run_pc[t] = "loop"
     /\ event_queue = <<>>
     /\ \A i \in 1..Len(tasks) : tasks[i].pc \in {"done", "failed"} /\ tasks[i].child # "alive")
    => ENABLED RunReturn(t)

\* C10: a call of run() made while another call of run() is active is rejected
\* at the guard, so at most one call is ever past the guard.
C10_SecondRunRejected ==
  Cardinality({t \in Threads : RunActive(t)}) <= 1

\* A Shutdown event has been dispatched and its dispatch returned.
ShutdownProcessed == \E n \in 1..Len(enq) : enq[n].name = N_Shutdown /\ Returned(n)

\* C11: when run() has returned after a processed Shutdown, every child that
\* was created on its loop has exited, and the child's ProcessExited has been
\* emitted and dispatched.
C11_ShutdownTerminatesChildren ==
  \A t \in Threads :
    (run_pc[t] = "returned" /\ ShutdownProcessed) =>
      \A i \in 1..Len(tasks) :
        (tasks[i].loop = t /\ tasks[i].child # "none") =>
          /\ tasks[i].child = "exited"
          /\ \E n \in EmittedBy(i, N_ProcessExited) : Returned(n)

\* C12: shutdown() called from another thread makes run() return normally, so
\* run() never ends with the loop's error for a stop before completion; and a
\* call of shutdown() while no run() is active leaves no stop behind.
C12_ShutdownStopsRun ==
  /\ \A t \in Threads : run_pc[t] # "stopped"
  /\ \A t \in Threads : stopping[t] => RunActive(t)

\* C13: a run() that ended through a processed Shutdown, with no dispatch
\* aborted by a failure, has returned 0.
C13_CleanShutdownReturnsZero ==
  \A t \in Threads :
    (/\ run_pc[t] = "returned"
     /\ ShutdownProcessed
     /\ \A k \in 1..Len(log) : log[k].op # "raise")
    => run_result[t] = "0"

ProcessHandlerNames == {"on_shutdown_process", "on_signal_process", "on_process_stdin"}

\* The handler of an ExecuteProcess action that is meant for the named event.
ProcessHandlerFor(name) ==
  CASE name = N_ShutdownProcess -> "on_shutdown_process"
    [] name = N_SignalProcess -> "on_signal_process"
    [] name = N_ProcessStdin -> "on_process_stdin"

\* The handlers that ExecuteProcess action a has in the registry.
HandlersOf(a) ==
  {m \in 1..Len(event_handlers) :
     event_handlers[m].action = a /\ event_handlers[m].name \in ProcessHandlerNames}

\* The dispatches, now returned, of events addressed to a process.
RequestDispatches ==
  {i \in Dispatches : EventOf(i).name \in RequestNames /\ log[EndOf(i)].op = "return"}

\* The coroutines of the action that the event of dispatch i is addressed to,
\* that existed when the dispatch started.
Addressed(i) ==
  {k \in 1..Len(log[i].children) : tasks[k].action = EventOf(i).action}

\* C14: every execute() of an ExecuteProcess action has registered one handler
\* each for ShutdownProcess, SignalProcess and ProcessStdin; when such an event
\* is dispatched, the handler for it of the action the event is addressed to
\* is called, and no handler of any other action is.
C14_ProcessHandlersFilterByAction ==
  /\ \A k \in 1..Len(tasks) : \A n \in ProcessHandlerNames :
       Cardinality({m \in HandlersOf(tasks[k].action) : event_handlers[m].name = n})
         = Cardinality({j \in 1..Len(tasks) : tasks[j].action = tasks[k].action})
  /\ \A i \in RequestDispatches : \A m \in 1..Len(log[i].snap) :
       LET h == log[i].snap[m] IN
       h.name \in ProcessHandlerNames =>
         (CallCount(h, log[i].e) = 1
            <=> (h.name = ProcessHandlerFor(EventOf(i).name) /\ h.action = EventOf(i).action))

\* C15: once the ProcessExited of a child has been emitted, the three handlers
\* that its action registered at execute() are no longer in the registry.
C15_HandlersUnregisteredAtExit ==
  \A i \in 1..Len(tasks) :
    EmittedBy(i, N_ProcessExited) # {} => HandlersOf(tasks[i].action) = {}

\* C16: when spawning the child has failed, a ProcessExited with an error
\* return code has been emitted for it, the handlers of its action are no
\* longer registered, and run() has not ended because of it.
C16_SpawnFailureEmitsExit ==
  \A i \in 1..Len(tasks) :
    tasks[i].pc = "failed" =>
      /\ \E n \in EmittedBy(i, N_ProcessExited) : enq[n].rc # 0
      /\ HandlersOf(tasks[i].action) = {}
      /\ run_pc[tasks[i].loop] = "crashed" => \E k \in 1..Len(log) : log[k].op = "raise"

\* The signals that the dispatch of event eid has sent to child k, in order.
SignalsBy(k, eid) ==
  LET sent == SelectSeq(tasks[k].signals, LAMBDA x : x.by = eid)
  IN [j \in 1..Len(sent) |-> sent[j].sig]

\* C17: the dispatch of a SignalProcess event sends the event's signal, once,
\* to the child of the action it is addressed to when that child is running,
\* and sends nothing when the child has exited.
C17_SignalDeliveredToRunningChild ==
  \A i \in RequestDispatches :
    EventOf(i).name = N_SignalProcess =>
      \A k \in Addressed(i) :
        SignalsBy(k, log[i].e) =
          (IF log[i].children[k] = "alive" THEN <<EventOf(i).arg>> ELSE <<>>)

Escalation == <<"SIGINT", "SIGTERM", "SIGKILL">>

\* C18: the dispatch of a ShutdownProcess event sends the running child of the
\* action SIGINT first, and after it only SIGTERM and then SIGKILL; and a
\* ProcessExited is emitted only for a child that has exited.
C18_ShutdownProcessEscalates ==
  /\ \A i \in RequestDispatches :
       EventOf(i).name = N_ShutdownProcess =>
         \A k \in Addressed(i) :
           log[i].children[k] = "alive" =>
             LET sent == SignalsBy(k, log[i].e) IN
             /\ Len(sent) \in 1..Len(Escalation)
             /\ sent = SubSeq(Escalation, 1, Len(sent))
  /\ \A k \in 1..Len(tasks) :
       EmittedBy(k, N_ProcessExited) # {} => tasks[k].child = "exited"

\* C19: the dispatch of a ProcessStdin event writes the event's text to the
\* stdin of the running child of the action it is addressed to, and the
\* dispatch is never aborted by a failure.
C19_StdinWrittenToChild ==
  /\ \A n \in 1..Len(enq) : enq[n].name = N_ProcessStdin => ~Aborted(n)
  /\ \A i \in RequestDispatches :
       EventOf(i).name = N_ProcessStdin =>
         \A k \in Addressed(i) :
           log[i].children[k] = "alive" =>
             \E j \in 1..Len(tasks[k].stdin) : tasks[k].stdin[j] = EventOf(i).arg

\* The elements of a cmd template; a cmd that is no list is its only element.
TemplateElements(c) == IF c.kind = "list" THEN c.items ELSE <<c>>

RECURSIVE Join(_)
Join(texts) == IF texts = <<>> THEN <<>> ELSE Head(texts) \o Join(Tail(texts))

\* The resolutions of all substitutions of one element, concatenated in order.
Resolution(el) ==
  IF el.kind = "list" THEN Join([k \in 1..Len(el.items) |-> el.items[k].text]) ELSE el.text

\* C20: every cmd template is accepted, and its resolved command has one entry
\* per element of the template, entry i being the concatenation in order of the
\* resolutions of all substitutions of element i.
C20_CmdExpansion ==
  /\ cmd_pc # "TypeError"
  /\ cmd_pc = "expanded" =>
       LET els == TemplateElements(arg_cmd) IN
       /\ Len(final_cmd[1]) = Len(els)
       /\ \A i \in 1..Len(els) : final_cmd[1][i] = Resolution(els[i])
\* The process events that coroutine i has emitted.
ProcessEventsOf(i) == {n \in 1..Len(enq) : enq[n].task = i}

\* C21: every process event of a child carries the cmd that the coroutine
\* which spawned the child resolved before the spawn, and all events of one
\* child carry the same cmd, also when the same action has been executed a
\* second time in between.
C21_EventsCarryResolvedCmd ==
  \A i \in 1..Len(tasks) :
    /\ \A n \in ProcessEventsOf(i) : enq[n].cmd = tasks[i].cmd
    /\ \A n, m \in ProcessEventsOf(i) : enq[n].cmd = enq[m].cmd
\* The entities visited, in order, during the dispatch opened at log[i].
VisitsIn(i) ==
  LET entries == SelectSeq(SubSeq(log, i + 1, EndOf(i) - 1), LAMBDA x : x.op = "visit")
  IN [k \in 1..Len(entries) |-> entries[k].ent]

\* The dispatches, now returned, of the events that include a description.
IncludeDispatches ==
  {i \in Dispatches : EventOf(i).name = N_Include /\ log[EndOf(i)].op = "return"}

\* Number of ExecuteProcess actions among the entities.
RECURSIVE CountExecuteProcess(_)
CountExecuteProcess(ents) ==
  IF ents = <<>> THEN 0
  ELSE (IF EntityTable[Head(ents)].kind = "ExecuteProcess" THEN 1 ELSE 0)
         + CountExecuteProcess(Tail(ents))

RECURSIVE SumOver(_, _)
SumOver(S, f) ==
  IF S = {} THEN 0 ELSE LET x == CHOOSE y \in S : TRUE IN f[x] + SumOver(S \ {x}, f)

\* C22: the dispatch of an IncludeLaunchDescription event visits the
\* description, the entities it contains and the entities that each visit
\* returns, depth first and in order, each one exactly once; so every
\* ExecuteProcess action of the tree has been executed once (one coroutine
\* each) and every RegisterEventHandler of the tree has registered its handler.
C22_IncludeVisitsTree ==
  /\ \A i \in IncludeDispatches : VisitsIn(i) = Preorder(EventOf(i).desc)
  /\ Len(tasks) =
       SumOver(IncludeDispatches,
               [i \in IncludeDispatches |-> CountExecuteProcess(Preorder(EventOf(i).desc))])

\* A description with a nested description and with an action whose visit
\* returns entities has been included and dispatched, and its process runs.
C22_Witness ==
  \E i \in IncludeDispatches :
    /\ \E k \in 1..Len(VisitsIn(i)) :
         visit_returns(VisitsIn(i)[k]) # <<>> /\ k + 1 <= Len(VisitsIn(i))
    /\ \E k \in 1..Len(VisitsIn(i)) :
         EntityTable[VisitsIn(i)[k]].kind = "LaunchDescription" /\ k > 1
    /\ Len(tasks) = 1 /\ tasks[1].child = "alive"
\* The loop of a thread inside run() is blocked in its selector.
Blocked == \E t \in Threads : run_pc[t] = "select"

\* A thread is inside run_until_complete.
RunInside == \E t \in Threads : run_pc[t] \in {"loop", "select"}

\* C23: the events that other threads put into the queue while the loop was
\* blocked on the empty queue are eventually taken out of it by the running
\* loop (unless run() has ended before), and the queue always holds exactly
\* the events not yet dispatched, in the order of their enqueue.
C23_IncludeFromOtherThread ==
  /\ (Blocked /\ event_queue # <<>>) ~> (event_queue = <<>> \/ ~RunInside)
  /\ [](event_queue = SubSeq(enq, Len(SelectSeq(log, IsDispatch)) + 1, Len(enq)))

\* C27: when KeyboardInterrupt has left run(), the running flag is false.
C27_InterruptClearsRunning ==
  \A t \in Threads : run_pc[t] = "interrupted" => ~running
\* The dispatches that have ended of the ProcessExited events which the
\* registered OnProcessExit handler named n matches.
ExitDispatchesOf(n) ==
  {i \in Dispatches :
     /\ \E k \in 1..Len(log[i].snap) : log[i].snap[k].name = n
     /\ matches(Handler(n, 0), EventOf(i))}

\* C24: with OnProcessExit(target_action=A, on_exit=[B]) registered, the
\* dispatch of A's ProcessExited executes B and returns, and a ProcessStarted
\* of B is emitted only after the ProcessExited of A and before B's own.
C24_OnExitExecutesNext ==
  /\ \A i \in ExitDispatchesOf("exit_then_exec2") :
       /\ log[EndOf(i)].op = "return"
       /\ \E k \in 1..Len(VisitsIn(i)) :
            VisitsIn(i)[k] = OnProcessExitHandlers["exit_then_exec2"].on_exit.value
  /\ \A n \in 1..Len(enq) :
       (enq[n].name = N_ProcessStarted /\ enq[n].action = 2) =>
         \E m \in 1..(n - 1) : enq[m].name = N_ProcessExited /\ enq[m].action = 1

\* A Shutdown event was enqueued after event n.
ShutdownAfter(n) == \E m \in (n + 1)..Len(enq) : enq[m].name = N_Shutdown

\* C30: for an action added with add_test_action, a Shutdown event is emitted
\* by the dispatch of its ProcessExited when the return code is not zero, and
\* when with it every test known to the service has succeeded.
C30_TestExitEmitsShutdown ==
  \A i \in ExitDispatchesOf("test_exit") :
    /\ EventOf(i).rc # 0 => ShutdownAfter(log[i].e)
    /\ (EventOf(i).rc = 0 /\ \A k \in DOMAIN tests : tests[k] \in {"none", "succeeded"})
         => ShutdownAfter(log[i].e)
\* Number of entries of the handler named n in a handler list.
Registered(handlers, n) == Cardinality({k \in 1..Len(handlers) : handlers[k].name = n})

\* Number of entries of handler n after the entities were visited in order,
\* starting from k entries, when unregistering removes one entry if there is one.
RECURSIVE RegisteredAfter(_, _, _)
RegisteredAfter(ents, n, k) ==
  IF ents = <<>> THEN k
  ELSE LET d == EntityTable[Head(ents)] IN
       RegisteredAfter(Tail(ents), n,
         IF d.handler # n THEN k
         ELSE IF d.kind = "RegisterEventHandler" THEN k + 1
         ELSE IF d.kind = "UnregisterEventHandler" /\ k > 0 THEN k - 1
         ELSE k)

\* C25: the dispatch that visits an UnregisterEventHandler raises nothing, and
\* after it the registry holds, of each handler, one entry less per
\* unregistration of a registered handler and the same entries otherwise.
C25_UnregisterRemovesFirst ==
  \A i \in Dispatches :
    (/\ EventOf(i).name = N_Include
     /\ \E k \in 1..Len(Preorder(EventOf(i).desc)) :
          EntityTable[Preorder(EventOf(i).desc)[k]].kind = "UnregisterEventHandler")
    => /\ log[EndOf(i)].op = "return"
       /\ (\A j \in Dispatches : j <= i) =>
            \A n \in DOMAIN UserHandlers :
              Registered(event_handlers, n) =
                RegisteredAfter(Preorder(EventOf(i).desc), n, Registered(log[i].snap, n))

\* Number of times the handler named n has been registered: once by each visit
\* of a RegisterEventHandler action that holds it, once by each call of a
\* handler whose body registers it.
Registrations(n) ==
  Cardinality({k \in 1..Len(log) :
                 \/ /\ log[k].op = "visit"
                    /\ EntityTable[log[k].ent].kind = "RegisterEventHandler"
                    /\ EntityTable[log[k].ent].handler = n
                 \/ /\ log[k].op = "call"
                    /\ log[k].h.name \in DOMAIN UserHandlers
                    /\ UserHandlers[log[k].h.name].registers = n})

\* Number of calls of the handler named n during the dispatch opened at log[i].
CallsOf(i, n) == Len(SelectSeq(Calls(i), LAMBDA h : h.name = n))

\* C26: registration does not deduplicate: a handler registered k times is in
\* the registry k times, and every dispatch that returns has called it k times
\* when the event matches it (k the number of its entries when the dispatch
\* began) and not at all otherwise.
C26_NoDeduplication ==
  /\ \A n \in DOMAIN UserHandlers : Registered(event_handlers, n) = Registrations(n)
  /\ \A i \in Dispatches :
       log[EndOf(i)].op = "return" =>
         \A n \in DOMAIN UserHandlers :
           CallsOf(i, n) =
             IF matches(UserHandler(n), EventOf(i)) THEN Registered(log[i].snap, n) ELSE 0

\* An output event of a process has been dispatched to a handler that was
\* registered three times, and the dispatch has returned.
C26_Witness ==
  \E i \in Dispatches :
    /\ log[EndOf(i)].op = "return"
    /\ EventOf(i).name = N_ProcessStdout
    /\ Registered(log[i].snap, "echo") = 3
    /\ CallsOf(i, "echo") = 3

\* The cmd argument is a list with an item that is neither text nor a Substitution.
HasBadItem(x) ==
  /\ x # <<>>
  /\ x.kind = "list"
  /\ \E k \in 1..Len(x.items) : x.items[k].kind \notin {"str", "Substitution", "FindExecutable"}

\* The target given is something, but not an ExecuteProcess action.
BadTarget(x) == x \notin {"none", "omitted"} /\ x \notin {"exec1", "exec2"}

C29_TargetMayBeOmitted ==
  (arg_target = "omitted" /\ handler_pc # "given") => handler_pc = "constructed"

\* C35: _succeed marks the test as succeeded; it returns the emission of
\* Shutdown('all tests finished') exactly when every test known to the service
\* is then succeeded; otherwise it returns the emission of
\* Shutdown('shutdown after test') when side_effect is 'shutdown' and an empty
\* list when it is not.
C35_SucceedReturnsShutdown ==
  test_ret.call = "_succeed" =>
    /\ tests[test_ret.arg] = "succeeded"
    /\ test_ret.ret = ShutdownAllFinished
         <=> \A k \in TestNames : tests[k] \in {"none", "succeeded"}
    /\ test_ret.ret # ShutdownAllFinished =>
         /\ test_ret.side_effect = "shutdown" => test_ret.ret = ShutdownAfterTest
         /\ test_ret.side_effect # "shutdown" => test_ret.ret = EmptyList

\* The last of two tests has succeeded and the call returned the emission of
\* Shutdown('all tests finished').
C35_Witness ==
  /\ test_ret.call = "_succeed"
  /\ \A k \in TestNames : tests[k] = "succeeded"
  /\ test_ret.ret = ShutdownAllFinished

\* C40: a status only moves forward: a test that is failed or dropped does not
\* become succeeded, no test is armed when _fail has returned, and the emission
\* of Shutdown('all tests finished') is not returned when a test has failed.
C40_StatusMovesForward ==
  [][/\ \A k \in TestNames :
          tests[k] \in {"failed", "dropped"} => tests'[k] # "succeeded"
     /\ test_ret'.call = "_fail" => \A k \in TestNames : tests'[k] # "armed"
     /\ (\E k \in TestNames : tests[k] = "failed") => test_ret'.ret # ShutdownAllFinished
    ]_vars

\* What LaunchTestService.run is to return when the launch service has
\* returned 0: the first return code recorded that is not zero, else 1 when a
\* test is failed, else 0.
ExpectedTestRc ==
  PyInt(FirstNonZero(processes_rc, IF \E k \in DOMAIN tests : tests[k] = "failed" THEN 1 ELSE 0))

RecordedRc(a) ==
  LET mine == SelectSeq(processes_rc, LAMBDA x : x.name = a)
  IN IF mine = <<>> THEN 0 ELSE Head(mine).rc

exit_allowed == {0}

\* C32: for a process added with add_fixture_action, the dispatch of its
\* ProcessExited, when no Shutdown was emitted before it, records a return
\* code that is not zero and emits a Shutdown if the return code is not
\* allowed, and records nothing and emits no Shutdown if it is allowed.
C32_FixtureExitShutsDown ==
  \A i \in ExitDispatchesOf("fixture_exit") :
    (\A m \in 1..(log[i].e - 1) : enq[m].name # N_Shutdown) =>
      LET a == EventOf(i).action
          rc == EventOf(i).rc
      IN IF rc \notin exit_allowed
           THEN /\ RecordedRc(a) = (IF rc # 0 THEN rc ELSE 1)
                /\ ShutdownAfter(log[i].e)
           ELSE /\ RecordedRc(a) = 0
                /\ ~ShutdownAfter(log[i].e)

\* What the matcher of the OnProcessIO or OnProcessExit handler named n is to
\* say of event e.
IOEventNames == {N_ProcessStdout, N_ProcessStderr, N_ProcessStdin, N_ProcessIO}
ToMatch(n, e) ==
  IF n \in DOMAIN OnProcessIOHandlers
    THEN e.name \in IOEventNames /\ e.action = OnProcessIOHandlers[n].target_action
    ELSE e.name = N_ProcessExited /\ e.action = OnProcessExitHandlers[n].target_action

StreamOf(e) ==
  CASE e.name = N_ProcessStdout -> "on_stdout"
    [] e.name = N_ProcessStderr -> "on_stderr"
    [] e.name = N_ProcessStdin -> "on_stdin"
CallbackFor(n, e) == OnProcessIOHandlers[n][StreamOf(e)]

\* The calls of OnProcessIO handlers.
IOCalls == {k \in 1..Len(log) : IsCall(log[k]) /\ log[k].h.name \in DOMAIN OnProcessIOHandlers}

IOEventsOf(i, name) == SelectSeq(enq, LAMBDA e : e.task = i /\ e.name = name)

\* The events waiting in the queue are the events enqueued and not yet taken.
Waiting == SubSeq(enq, Len(enq) - Len(event_queue) + 1, Len(enq))

\* C34: each chunk received on stdout (stderr) is one ProcessStdout
\* (ProcessStderr) event, enqueued at once: the events of a stream are as many
\* as the chunks received on it and carry them in the order received, and
\* every event not yet taken by a dispatch is in the queue, in that order.
C34_OneEventPerChunk ==
  /\ \A i \in 1..Len(tasks) :
       /\ Len(IOEventsOf(i, N_ProcessStdout)) = tasks[i].out
       /\ Len(IOEventsOf(i, N_ProcessStderr)) = tasks[i].err
       /\ \A n \in 1..tasks[i].out : IOEventsOf(i, N_ProcessStdout)[n].text = n
       /\ \A n \in 1..tasks[i].err : IOEventsOf(i, N_ProcessStderr)[n].text = n
  /\ event_queue = Waiting
  /\ Len(enq) - Len(event_queue) = Cardinality(Dispatches)

\* A burst of two stdout chunks and a stderr chunk of one child is waiting in
\* the queue, none of them dispatched.
C34_Witness ==
  \E i \in 1..Len(tasks) :
    /\ tasks[i].out = 2 /\ tasks[i].err = 1
    /\ Len(SelectSeq(event_queue, LAMBDA e : e.task = i /\ e.name = N_ProcessStdout)) = 2
    /\ Len(SelectSeq(event_queue, LAMBDA e : e.task = i /\ e.name = N_ProcessStderr)) = 1
\* ---------------------------------------------------------------------------
\* C36: handlers registered with register_async_event_handler are kept in a
\* list of their own, newest first, one entry per registration; they never
\* appear among the synchronous handlers, and no dispatch of any event calls
\* them, whatever the event is.
AsyncRegistrations(n) ==
  Cardinality({k \in 1..Len(log) :
                 /\ log[k].op = "visit"
                 /\ EntityTable[log[k].ent].kind = "RegisterAsyncEventHandler"
                 /\ EntityTable[log[k].ent].handler = n})

AsyncOnly == {"async_echo"}

ShutdownDispatches == {i \in Dispatches : EventOf(i).name = N_Shutdown}

\* The dispatch opened at log[i] called every matching handler of its snapshot,
\* the users' before the service's own, which comes last.
RanToCompletion(i) ==
  /\ log[EndOf(i)].op = "return"
  /\ Calls(i) = MatchingIn(log[i].snap, EventOf(i))
  /\ Calls(i) # <<>>
  /\ Calls(i)[Len(Calls(i))].name = "on_shutdown"
  /\ \A k \in 1..(Len(Calls(i)) - 1) : Calls(i)[k].name \in DOMAIN UserHandlers

\* C37: the dispatch of a Shutdown event runs to completion: the users'
\* handlers are called before the service's own, every matching handler of the
\* snapshot is called, and the run whose loop dispatched it takes no further
\* event: when the loop reads __running after that dispatch it reads false, so
\* the events queued behind Shutdown are left in the queue by that run.
C37_ShutdownRunsToCompletion ==
  /\ \A i \in ShutdownDispatches : RanToCompletion(i)
  /\ \A t \in Threads : run_pc[t] = "shutdown_dispatched" => ~running

\* A call of run() by thread t has exited, by return or by an exception.
RunExited(t) ==
  run_pc[t] \in {"returned", "crashed", "stopped", "interrupted", "rejected"}

\* C38: the running flag is true exactly while a call of run() is active: once
\* every call of run() has exited, by a normal return or by an exception of a
\* handler, of a visited entity or of the scheduler, the flag is false and the
\* stored loop handle is cleared, so that a later call of run() is accepted.
C38_RunningOnlyWhileRunActive ==
  (/\ \A t \in Threads : run_pc[t] = "idle" \/ RunExited(t)
   /\ \E t \in Threads : RunExited(t))
    => ~running /\ loop_from_run_thread = "None"

====
